---- MODULE Spec2Model ----
(***************************************************************************)
(* State-machine model of the photo-voice live session manager             *)
(* (services/liveClient.ts, class LiveClient) and of the live-mode part of *)
(* its controller (App.tsx).                                               *)
(*                                                                         *)
(* JavaScript runs handlers to completion between awaits, so every action  *)
(* below is one synchronous segment of a handler: from its entry or from   *)
(* the resumption of an await up to the next await or the return.          *)
(* Promise continuations that are already resolvable (microtasks) run      *)
(* inside the segment that made them resolvable.                           *)
(*                                                                         *)
(* Browser objects are modelled by the state the code can observe:         *)
(*   AudioContext      "null" | "running" | "closed"                       *)
(*   MediaStream       "null" | "live" | "stopped"   (its audio track)     *)
(*   source node       "null" | "connected" | "disconnected"               *)
(*   processor node    "null" | "installed" | "removed"                    *)
(*   session promise   "null" | "pending" | "resolved"                     *)
(*   web socket        "idle" | "connecting" | "open" | "errored" |        *)
(*                     "closed"                                            *)
(***************************************************************************)
EXTENDS Integers, Sequences, FiniteSets, TLC

\* ------------------------------------------------------------------ bounds
MaxClients == 2        \* LiveClient objects the controller may construct
MaxMessages == 2       \* inbound messages delivered to one client
MaxDisconnects == 2    \* disconnect() calls made on one client
MaxClock == 3          \* output device clock ticks (in samples at 24 kHz)
MaxChunk == 2          \* longest playback chunk, in samples
MaxText == 2           \* longest transcript accumulator, in fragments
MaxSent == 3           \* outbound messages recorded per connection
MaxHistory == 3        \* items the edit history may hold
MaxEdits == 1          \* edit requests in flight at once
MaxParts == 2          \* content parts of a response candidate
MaxOver == 4           \* how far a captured sample may exceed full scale

ClientIds == 1..MaxClients

Null == "null"
NoImage == <<>>     \* currentImage === null
NoClient == 0       \* liveClientRef.current === null
NoCaption == [text |-> <<>>, source |-> Null]     \* liveCaption === null
NoLog == [message |-> <<>>, type |-> Null]          \* logs is empty
Undefined == "undefined"
Thrown == "thrown"

\* Values a tool handler (LiveClientConfig.onToolCall: Promise<any>) may
\* resolve to: nothing, a falsy string, a non-empty string.
ReturnValues == {Undefined, "", "Image edited successfully"}
ToolOutcomes == ReturnValues \cup {Thrown}

\* Function calls the remote side may put in a toolCall message.
FunctionCalls == {[id |-> "call-1", name |-> "edit_image"],
                  [id |-> "call-2", name |-> "describe_image"]}
Batches == {<<a>> : a \in FunctionCalls}
             \cup {b \in [1..2 -> FunctionCalls] : b[1].id # b[2].id}

Fragments == {"Hello", "world"}

\* Images held by the controller: a data URL is "header,data".
Images == {<<"data:image/png;base64", "AAAA">>, <<"BBBB">>}

VARIABLES
  \* LiveClient private fields, one value per constructed client
  sessionPromise, inputAudioContext, outputAudioContext, inputSource,
  processor, stream, nextStartTime, currentInputText, currentOutputText,
  \* pending asynchronous work and platform state of each client
  transport,        \* state of the web socket behind ai.live.connect
  thenQueue,        \* sends registered with .then on the pending promise
  sent,             \* messages handed to the session object, in order
  micRequest,       \* startAudioInput: "none" | "pending" | "done" | "failed"
  disconnectCalls,  \* disconnect() calls suspended at an await, with their caller
  disconnectLog,    \* outcome of every finished disconnect() call
  handlers,         \* onmessage invocations suspended at `await onToolCall`
  toolLog,          \* the last finished onmessage invocation that carried a toolCall
  received,         \* number of inbound messages delivered
  framesCaptured,   \* number of onaudioprocess events handled
  currentTime,      \* outputAudioContext.currentTime
  scheduled,        \* source.start(...) calls made by playAudio
  errorReported,    \* config.onError has been invoked
  \* what the callers and the callbacks of each client have observed
  connectResult,    \* how the last connect() call ended: "none" | "resolved" | "rejected"
  onOpenCalls,      \* number of config.onOpen invocations
  errorReasons,     \* messages of the errors passed to config.onError
  transcriptions,   \* config.onTranscription calls of the last onmessage invocation
  lastTranscript,   \* parts of the last inbound message, as onmessage handled them
  teardown,         \* steps of the last finished disconnect() call, in order
  frameCalls,       \* number of sendImageFrame calls
  lastFrame,        \* argument of the last sendImageFrame call
  \* App.tsx
  created,          \* LiveClient objects constructed so far
  mounted, isLiveMode, isConnecting, liveCaption, captionTimeout,
  liveClientRef, currentImage,
  logs,             \* newest entry of the log panel (addLog puts it first)
  closureImage,     \* currentImage as captured by each client's callbacks
  envApiKey,        \* process.env.API_KEY is set
  history,          \* url of every ImageHistoryItem, oldest first
  historyIndex,     \* 0-based as in the source, -1 when the history is empty
  appState,         \* AppState: "IDLE" | "ANALYZING" | "ERROR"
  prompt,           \* text of the command input
  edits,            \* handleExternalEdit calls suspended at `await editImage`
  errorTimers,      \* pending 2 s timers set by failed edits
  lastEdit,         \* what the last finished handleExternalEdit call returned
  closureIndex,     \* historyIndex as captured by each client's callbacks
  \* calls of the pure functions
  editCall,         \* arguments and outcome of an editImage call
  pcmCall           \* a captured sample and its conversions

clientVars == <<sessionPromise, inputAudioContext, outputAudioContext, inputSource,
                processor, stream, nextStartTime, currentInputText, currentOutputText>>
asyncVars == <<transport, thenQueue, sent, micRequest, disconnectCalls, disconnectLog,
               handlers, toolLog, received, framesCaptured, currentTime, scheduled, errorReported>>
obsVars == <<connectResult, onOpenCalls, errorReasons, transcriptions, lastTranscript,
             teardown, frameCalls, lastFrame>>
appVars == <<created, mounted, isLiveMode, isConnecting, liveCaption, captionTimeout,
             liveClientRef, currentImage, logs, closureImage, envApiKey>>
editVars == <<history, historyIndex, appState, prompt, edits, errorTimers, lastEdit,
              closureIndex>>
callVars == <<editCall, pcmCall>>
vars == <<clientVars, asyncVars, obsVars, appVars, editVars, callVars>>

Max(a, b) == IF a >= b THEN a ELSE b

\* f with its value at client c replaced by v
Upd(f, c, v) == [f EXCEPT ![c] = v]

\* s without its k-th element
RemoveAt(s, k) == [j \in 1..(Len(s) - 1) |-> IF j < k THEN s[j] ELSE s[j + 1]]

\* JavaScript truthiness of a handler result (`result || "success"`)
Falsy(v) == v \in {Undefined, ""}

\* -------------------------------------------------------- controller callbacks
\* The LiveClientConfig closures built by toggleLiveMode.  React drops state
\* updates of an unmounted component.

\* addLog(message, type), the message being the pieces of its template:
\* `setLogs(prev => [entry, ...prev].slice(0, 50))`
AddLog(message, type) ==
  logs' = IF mounted THEN [message |-> message, type |-> type] ELSE logs

\* onTranscription: `if (text) setLiveCaption({ text, source })`
CaptionAfter(cap, text, source) ==
  IF text # <<>> THEN [text |-> text, source |-> source] ELSE cap

\* onOpen: setIsConnecting(false); setIsLiveMode(true); addLog
OnOpenCallback ==
  /\ isConnecting' = IF mounted THEN FALSE ELSE isConnecting
  /\ isLiveMode' = IF mounted THEN TRUE ELSE isLiveMode
  /\ AddLog(<<"Tigist Connected: Say 'Eshi' to start">>, "success")
  /\ UNCHANGED <<liveCaption, captionTimeout>>

\* onClose: setIsLiveMode(false); setIsConnecting(false); setLiveCaption(null)
OnCloseCallback ==
  /\ isLiveMode' = IF mounted THEN FALSE ELSE isLiveMode
  /\ isConnecting' = IF mounted THEN FALSE ELSE isConnecting
  /\ liveCaption' = IF mounted THEN NoCaption ELSE liveCaption
  /\ UNCHANGED <<captionTimeout, logs>>

\* onError(err): addLog(`Live Error: ${err.message}`, 'error');
\* setIsConnecting(false); setIsLiveMode(false); setLiveCaption(null)
OnErrorCallback(c, message) ==
  /\ errorReported' = Upd(errorReported, c, TRUE)
  /\ errorReasons' = Upd(errorReasons, c, errorReasons[c] \cup {message})
  /\ AddLog(<<"Live Error: ", message>>, "error")
  /\ isConnecting' = IF mounted THEN FALSE ELSE isConnecting
  /\ isLiveMode' = IF mounted THEN FALSE ELSE isLiveMode
  /\ liveCaption' = IF mounted THEN NoCaption ELSE liveCaption
  /\ UNCHANGED captionTimeout

\* ------------------------------------------------------------------ LiveClient

\* Mutant of StripHeader: the data URL is sent as it is.
StripHeaderKept(img) == img

\* sendImageFrame's `base64Image.split(',')[1] || base64Image`
StripHeader(img) == IF Len(img) >= 2 /\ img[2] # "" THEN <<img[2]>> ELSE img

ImageChunk(img) == [kind |-> "realtimeInput", mimeType |-> "image/jpeg", data |-> StripHeader(img)]
AudioChunk(n) == [kind |-> "realtimeInput", mimeType |-> "audio/pcm;rate=16000", data |-> n]

\* Mutant of SentAfter: a new message overtakes the ones already submitted.
SentAfterOvertaking(c, msgs) ==
  IF sessionPromise[c] = "resolved" THEN msgs \o sent[c] ELSE sent[c]

\* `this.sessionPromise?.then(session => session.send...(msg))`: the send runs
\* at once on a resolved promise, waits on a pending one, and is skipped when
\* the field is null.
SentAfter(c, msgs) ==
  IF sessionPromise[c] = "resolved" THEN sent[c] \o msgs ELSE sent[c]
QueueAfter(c, msgs) ==
  IF sessionPromise[c] = "pending" THEN thenQueue[c] \o msgs ELSE thenQueue[c]

\* Mutant of Connect: the contexts are allocated and the connection is
\* started before the key is checked.
ConnectUnchecked(c, hasKey) ==
  /\ transport[c] = "idle"
  /\ inputAudioContext' = Upd(inputAudioContext, c, "running")
  /\ outputAudioContext' = Upd(outputAudioContext, c, "running")
  /\ sessionPromise' = Upd(sessionPromise, c, "pending")
  /\ thenQueue' = Upd(thenQueue, c, <<>>)
  /\ transport' = Upd(transport, c, "connecting")
  /\ connectResult' = Upd(connectResult, c, IF hasKey THEN "resolved" ELSE "rejected")
  /\ UNCHANGED <<onOpenCalls, errorReasons, transcriptions, lastTranscript, teardown,
                 frameCalls, lastFrame>>
  /\ UNCHANGED <<inputSource, processor, stream, nextStartTime, currentInputText,
                 currentOutputText, sent, micRequest, disconnectCalls, disconnectLog,
                 handlers, toolLog, received, framesCaptured, currentTime, scheduled,
                 errorReported>>

\* connect(apiKey): throws without a key, before anything is allocated;
\* otherwise allocates both contexts, starts ai.live.connect and returns
\* without awaiting the session promise.  As in the controller, connect is
\* called at most once on a client.
Connect(c, hasKey) ==
  /\ transport[c] = "idle"
  /\ IF hasKey
       THEN /\ inputAudioContext' = Upd(inputAudioContext, c, "running")
            /\ outputAudioContext' = Upd(outputAudioContext, c, "running")
            /\ sessionPromise' = Upd(sessionPromise, c, "pending")
            /\ thenQueue' = Upd(thenQueue, c, <<>>)
            /\ transport' = Upd(transport, c, "connecting")
       ELSE UNCHANGED <<inputAudioContext, outputAudioContext, sessionPromise,
                        thenQueue, transport>>
  /\ connectResult' = Upd(connectResult, c, IF hasKey THEN "resolved" ELSE "rejected")
  /\ UNCHANGED <<onOpenCalls, errorReasons, transcriptions, lastTranscript, teardown,
                 frameCalls, lastFrame>>
  /\ UNCHANGED <<inputSource, processor, stream, nextStartTime, currentInputText,
                 currentOutputText, sent, micRequest, disconnectCalls, disconnectLog,
                 handlers, toolLog, received, framesCaptured, currentTime, scheduled,
                 errorReported>>

\* Mutant of StartAudioInput: the microphone is never requested.
StartAudioInputSkipped(c) == micRequest[c]

\* startAudioInput up to its await: `if (!this.inputAudioContext) return;`,
\* then getUserMedia is requested.
StartAudioInput(c) ==
  IF inputAudioContext[c] = Null THEN micRequest[c] ELSE "pending"

\* callbacks.onopen: startAudioInput() up to its await, then config.onOpen(),
\* whose closure sends the captured image; the session promise resolves right
\* after and runs the sends registered on it.
OnOpen(c) ==
  /\ transport[c] = "connecting"
  /\ transport' = Upd(transport, c, "open")
  /\ micRequest' = Upd(micRequest, c, StartAudioInput(c))
  /\ OnOpenCallback
  /\ onOpenCalls' = Upd(onOpenCalls, c, onOpenCalls[c] + 1)
  /\ IF closureImage[c] # NoImage
       THEN /\ frameCalls' = Upd(frameCalls, c, frameCalls[c] + 1)
            /\ lastFrame' = Upd(lastFrame, c, closureImage[c])
       ELSE UNCHANGED <<frameCalls, lastFrame>>
  /\ UNCHANGED <<connectResult, errorReasons, transcriptions, lastTranscript, teardown>>
  /\ LET frame == IF closureImage[c] # NoImage /\ sessionPromise[c] # Null
                    THEN <<ImageChunk(closureImage[c])>> ELSE <<>>
     IN  /\ sent' = Upd(sent, c, sent[c] \o thenQueue[c] \o frame)
         /\ thenQueue' = Upd(thenQueue, c, <<>>)
  /\ sessionPromise' = IF sessionPromise[c] = "pending"
                         THEN Upd(sessionPromise, c, "resolved") ELSE sessionPromise
  /\ UNCHANGED <<inputAudioContext, outputAudioContext, inputSource, processor, stream,
                 nextStartTime, currentInputText, currentOutputText, disconnectCalls,
                 disconnectLog, handlers, toolLog, received, framesCaptured, currentTime,
                 scheduled, errorReported>>
  /\ UNCHANGED <<created, mounted, liveClientRef, currentImage, closureImage, envApiKey, editVars, callVars>>

\* callbacks.onerror: config.onError(new Error("Connection error")).  A socket
\* that fails before it opens leaves the session promise pending.
OnError(c) ==
  /\ transport[c] \in {"connecting", "open"}
  /\ transport' = Upd(transport, c, "errored")
  /\ OnErrorCallback(c, "Connection error")
  /\ UNCHANGED <<connectResult, onOpenCalls, transcriptions, lastTranscript, teardown,
                 frameCalls, lastFrame>>
  /\ UNCHANGED clientVars
  /\ UNCHANGED <<thenQueue, sent, micRequest, disconnectCalls, disconnectLog, handlers,
                 toolLog, received, framesCaptured, currentTime, scheduled>>
  /\ UNCHANGED <<created, mounted, liveClientRef, currentImage, closureImage, envApiKey, editVars, callVars>>

\* callbacks.onclose: config.onClose()
OnClose(c) ==
  /\ transport[c] \in {"open", "errored"}
  /\ transport' = Upd(transport, c, "closed")
  /\ OnCloseCallback
  /\ UNCHANGED obsVars
  /\ UNCHANGED clientVars
  /\ UNCHANGED <<thenQueue, sent, micRequest, disconnectCalls, disconnectLog, handlers,
                 toolLog, received, framesCaptured, currentTime, scheduled, errorReported>>
  /\ UNCHANGED <<created, mounted, liveClientRef, currentImage, closureImage, envApiKey, editVars, callVars>>

\* startAudioInput after `await getUserMedia` resolved.  createMediaStreamSource
\* on a closed context may throw (sourceThrows); the catch reports it.
MicGranted(c, sourceThrows) ==
  /\ micRequest[c] = "pending"
  /\ sourceThrows => inputAudioContext[c] = "closed"
  /\ stream' = Upd(stream, c, "live")
  /\ IF sourceThrows
       THEN /\ micRequest' = Upd(micRequest, c, "failed")
            /\ OnErrorCallback(c, "Microphone access denied")
            /\ UNCHANGED <<inputSource, processor>>
       ELSE /\ micRequest' = Upd(micRequest, c, "done")
            /\ inputSource' = Upd(inputSource, c, "connected")
            /\ processor' = Upd(processor, c, "installed")
            /\ UNCHANGED <<errorReported, errorReasons, isConnecting, isLiveMode,
                           liveCaption, captionTimeout, logs>>
  /\ UNCHANGED <<connectResult, onOpenCalls, transcriptions, lastTranscript, teardown,
                 frameCalls, lastFrame>>
  /\ UNCHANGED <<sessionPromise, inputAudioContext, outputAudioContext, nextStartTime,
                 currentInputText, currentOutputText>>
  /\ UNCHANGED <<transport, thenQueue, sent, disconnectCalls, disconnectLog, handlers,
                 toolLog, received, framesCaptured, currentTime, scheduled>>
  /\ UNCHANGED <<created, mounted, liveClientRef, currentImage, closureImage, envApiKey, editVars, callVars>>

\* Mutant of MicDenied: the failure is swallowed, config.onError is not called.
MicDeniedSilent(c) ==
  /\ micRequest[c] = "pending"
  /\ micRequest' = Upd(micRequest, c, "failed")
  /\ UNCHANGED <<errorReported, errorReasons, isConnecting, isLiveMode, liveCaption,
                 captionTimeout, logs>>
  /\ UNCHANGED <<connectResult, onOpenCalls, transcriptions, lastTranscript, teardown,
                 frameCalls, lastFrame>>
  /\ UNCHANGED clientVars
  /\ UNCHANGED <<transport, thenQueue, sent, disconnectCalls, disconnectLog, handlers,
                 toolLog, received, framesCaptured, currentTime, scheduled>>
  /\ UNCHANGED <<created, mounted, liveClientRef, currentImage, closureImage, envApiKey, editVars, callVars>>

\* startAudioInput after `await getUserMedia` rejected: the catch block.
MicDenied(c) ==
  /\ micRequest[c] = "pending"
  /\ micRequest' = Upd(micRequest, c, "failed")
  /\ OnErrorCallback(c, "Microphone access denied")
  /\ UNCHANGED <<connectResult, onOpenCalls, transcriptions, lastTranscript, teardown,
                 frameCalls, lastFrame>>
  /\ UNCHANGED clientVars
  /\ UNCHANGED <<transport, thenQueue, sent, disconnectCalls, disconnectLog, handlers,
                 toolLog, received, framesCaptured, currentTime, scheduled>>
  /\ UNCHANGED <<created, mounted, liveClientRef, currentImage, closureImage, envApiKey, editVars, callVars>>

\* processor.onaudioprocess: one captured block is converted and submitted.
\* A closed context delivers no more blocks.
OnAudioProcess(c) ==
  /\ processor[c] = "installed"
  /\ inputAudioContext[c] = "running"
  /\ framesCaptured[c] < MaxSent
  /\ Len(sent[c]) < MaxSent
  /\ framesCaptured' = Upd(framesCaptured, c, framesCaptured[c] + 1)
  /\ sent' = Upd(sent, c, SentAfter(c, <<AudioChunk(framesCaptured[c] + 1)>>))
  /\ thenQueue' = Upd(thenQueue, c, QueueAfter(c, <<AudioChunk(framesCaptured[c] + 1)>>))
  /\ UNCHANGED clientVars
  /\ UNCHANGED <<transport, micRequest, disconnectCalls, disconnectLog, handlers, toolLog,
                 received, currentTime, scheduled, errorReported>>
  /\ UNCHANGED obsVars
  /\ UNCHANGED appVars
  /\ UNCHANGED <<editVars, callVars>>

\* Mutant of SendImageFrame: sending a frame also rewinds the playback cursor.
SendImageFrameRewinding(c, img) ==
  /\ Len(sent[c]) + Len(thenQueue[c]) < MaxSent
  /\ frameCalls[c] < MaxSent
  /\ frameCalls' = Upd(frameCalls, c, frameCalls[c] + 1)
  /\ lastFrame' = Upd(lastFrame, c, img)
  /\ sent' = Upd(sent, c, SentAfter(c, <<ImageChunk(img)>>))
  /\ thenQueue' = Upd(thenQueue, c, QueueAfter(c, <<ImageChunk(img)>>))
  /\ nextStartTime' = Upd(nextStartTime, c, 0)
  /\ UNCHANGED <<sessionPromise, inputAudioContext, outputAudioContext, inputSource,
                 processor, stream, currentInputText, currentOutputText>>
  /\ UNCHANGED <<transport, micRequest, disconnectCalls, disconnectLog, handlers, toolLog,
                 received, framesCaptured, currentTime, scheduled, errorReported>>
  /\ UNCHANGED <<connectResult, onOpenCalls, errorReasons, transcriptions, lastTranscript,
                 teardown>>
  /\ UNCHANGED appVars
  /\ UNCHANGED <<editVars, callVars>>

\* sendImageFrame(base64Image)
SendImageFrame(c, img) ==
  /\ Len(sent[c]) + Len(thenQueue[c]) < MaxSent
  /\ frameCalls[c] < MaxSent
  /\ frameCalls' = Upd(frameCalls, c, frameCalls[c] + 1)
  /\ lastFrame' = Upd(lastFrame, c, img)
  /\ sent' = Upd(sent, c, SentAfter(c, <<ImageChunk(img)>>))
  /\ thenQueue' = Upd(thenQueue, c, QueueAfter(c, <<ImageChunk(img)>>))
  /\ UNCHANGED clientVars
  /\ UNCHANGED <<transport, micRequest, disconnectCalls, disconnectLog, handlers, toolLog,
                 received, framesCaptured, currentTime, scheduled, errorReported>>
  /\ UNCHANGED <<connectResult, onOpenCalls, errorReasons, transcriptions, lastTranscript,
                 teardown>>
  /\ UNCHANGED appVars
  /\ UNCHANGED <<editVars, callVars>>

\* ------------------------------------------------------------ inbound messages
\* A LiveServerMessage: audio is the chunk's length in samples (0: none),
\* a transcription is a text fragment or Null, toolCall is the batch of
\* function calls (<<>>: none).
AllMessages == [audio : 0..MaxChunk,
                inputTranscription : Fragments \cup {Null},
                outputTranscription : Fragments \cup {Null},
                turnComplete : BOOLEAN,
                toolCall : Batches \cup {<<>>}]

NoTranscript == [inputTranscription |-> Null, outputTranscription |-> Null,
                 turnComplete |-> FALSE, audio |-> FALSE, toolCall |-> FALSE,
                 handled |-> <<>>]

NoParts == [audio |-> 0, inputTranscription |-> Null, outputTranscription |-> Null,
            turnComplete |-> FALSE, toolCall |-> <<>>]

\* Mutant of StartTime: every chunk starts at the device's current time.
StartTimeUnclamped(cursor, now) == now

\* playAudio's scheduling: `if (nextStartTime < currentTime) nextStartTime = currentTime`
StartTime(cursor, now) == IF cursor < now THEN now ELSE cursor

\* Mutant of CursorAfter: the cursor is not advanced by the chunk's duration.
CursorAfterNoAdvance(cursor, now, duration) == StartTime(cursor, now)

\* `this.nextStartTime += buffer.duration`
CursorAfter(cursor, now, duration) == StartTime(cursor, now) + duration

\* Mutant of ToolResult: the handler's value is passed on without a default.
ToolResultNoDefault(fc, result) ==
  [id |-> fc.id, name |-> fc.name, response |-> [result |-> result]]

\* responses.push({ id: fc.id, name: fc.name, response: { result: result || "success" } })
ToolResult(fc, result) ==
  [id |-> fc.id, name |-> fc.name,
   response |-> [result |-> IF Falsy(result) THEN "success" ELSE result]]

ToolResponse(responses) ==
  [kind |-> "toolResponse", mimeType |-> Null, data |-> responses]

\* Mutant of Accumulated: a fragment replaces the text accumulated so far.
AccumulatedReplaced(text, fragment) ==
  IF fragment # Null THEN <<fragment>> ELSE text

\* `this.currentInputText += message.serverContent.inputTranscription.text`
\* (and the same for the output text), when the message has that part.
Accumulated(text, fragment) ==
  IF fragment # Null THEN Append(text, fragment) ELSE text

\* Mutant of AfterTurn: the accumulators survive the end of the turn.
AfterTurnKept(text, turnComplete) == text

\* On turnComplete: `this.currentInputText = ''; this.currentOutputText = ''`
AfterTurn(text, turnComplete) == IF turnComplete THEN <<>> ELSE text

\* The config.onTranscription calls of one message, in order: the user text
\* so far, the model text so far, and on turnComplete the final model text.
TranscriptionCalls(m, inText, outText) ==
  (IF m.inputTranscription # Null
     THEN <<[text |-> inText, source |-> "user", isFinal |-> FALSE]>> ELSE <<>>)
  \o (IF m.outputTranscription # Null
        THEN <<[text |-> outText, source |-> "model", isFinal |-> FALSE]>> ELSE <<>>)
  \o (IF m.turnComplete
        THEN <<[text |-> outText, source |-> "model", isFinal |-> TRUE]>> ELSE <<>>)

\* Mutant of PartsHandled: the tool calls are run before the turn is closed.
PartsHandledToolsFirst(m) ==
  (IF m.audio > 0 THEN <<"audio">> ELSE <<>>)
  \o (IF m.inputTranscription # Null THEN <<"inputTranscription">> ELSE <<>>)
  \o (IF m.outputTranscription # Null THEN <<"outputTranscription">> ELSE <<>>)
  \o (IF m.toolCall # <<>> THEN <<"toolCall">> ELSE <<>>)
  \o (IF m.turnComplete THEN <<"turnComplete">> ELSE <<>>)

\* The parts of message m that callbacks.onmessage acts on, in the order of
\* its `if` statements.
PartsHandled(m) ==
  (IF m.audio > 0 THEN <<"audio">> ELSE <<>>)
  \o (IF m.inputTranscription # Null THEN <<"inputTranscription">> ELSE <<>>)
  \o (IF m.outputTranscription # Null THEN <<"outputTranscription">> ELSE <<>>)
  \o (IF m.turnComplete THEN <<"turnComplete">> ELSE <<>>)
  \o (IF m.toolCall # <<>> THEN <<"toolCall">> ELSE <<>>)

\* callbacks.onmessage before its tool loop: audio, transcriptions and
\* turnComplete.
OnMessageContent(c, m) ==
  /\ transport[c] = "open"
  /\ received[c] < MaxMessages
  /\ received' = Upd(received, c, received[c] + 1)
  /\ LET inText == Accumulated(currentInputText[c], m.inputTranscription)
         outText == Accumulated(currentOutputText[c], m.outputTranscription)
         cap1 == IF m.inputTranscription # Null
                   THEN CaptionAfter(liveCaption, inText, "user") ELSE liveCaption
         cap2 == IF m.outputTranscription # Null
                   THEN CaptionAfter(cap1, outText, "model") ELSE cap1
         cap3 == IF m.turnComplete THEN CaptionAfter(cap2, outText, "model") ELSE cap2
         called == m.inputTranscription # Null \/ m.outputTranscription # Null
                     \/ m.turnComplete
     IN  /\ Len(inText) <= MaxText
         /\ Len(outText) <= MaxText
         /\ currentInputText' = Upd(currentInputText, c, AfterTurn(inText, m.turnComplete))
         /\ currentOutputText' = Upd(currentOutputText, c, AfterTurn(outText, m.turnComplete))
         /\ transcriptions' = Upd(transcriptions, c, TranscriptionCalls(m, inText, outText))
         /\ lastTranscript' = Upd(lastTranscript, c,
              [inputTranscription |-> m.inputTranscription,
               outputTranscription |-> m.outputTranscription,
               turnComplete |-> m.turnComplete,
               audio |-> m.audio > 0,
               toolCall |-> m.toolCall # <<>>,
               handled |-> PartsHandled(m)])
         /\ liveCaption' = IF mounted THEN cap3 ELSE liveCaption
         /\ captionTimeout' = IF called THEN TRUE ELSE captionTimeout
  /\ IF m.audio > 0 /\ outputAudioContext[c] # Null
       THEN /\ scheduled' = Upd(scheduled, c, Append(scheduled[c],
                 [start |-> StartTime(nextStartTime[c], currentTime[c]),
                  duration |-> m.audio,
                  now |-> currentTime[c],
                  cursor |-> nextStartTime[c]]))
            /\ nextStartTime' = Upd(nextStartTime, c,
                 CursorAfter(nextStartTime[c], currentTime[c], m.audio))
       ELSE UNCHANGED <<scheduled, nextStartTime>>
  /\ UNCHANGED <<sessionPromise, inputAudioContext, outputAudioContext, inputSource,
                 processor, stream>>
  /\ UNCHANGED <<transport, micRequest, disconnectCalls, disconnectLog, framesCaptured,
                 currentTime, errorReported>>
  /\ UNCHANGED <<connectResult, onOpenCalls, errorReasons, teardown, frameCalls, lastFrame>>
  /\ UNCHANGED <<created, mounted, isLiveMode, isConnecting, liveClientRef, currentImage,
                 closureImage, envApiKey, callVars>>

\* callbacks.onmessage up to its first `await this.config.onToolCall(fc)`, or
\* to its end when the message carries no tool call.  The SDK calls onmessage
\* for every web-socket message without awaiting the promise it returns.
\* Here onToolCall is any handler: when and with what it settles is open.
OnMessage(c, m) ==
  /\ OnMessageContent(c, m)
  /\ IF m.toolCall # <<>>
       THEN handlers' = Upd(handlers, c, Append(handlers[c],
                 [calls |-> m.toolCall, results |-> <<>>, responses |-> <<>>]))
       ELSE UNCHANGED handlers
  /\ UNCHANGED <<thenQueue, sent, toolLog>>
  /\ UNCHANGED <<logs, editVars>>

\* The h-th suspended onmessage resumes: its `await this.config.onToolCall(fc)`
\* settles with a value or throws.  A thrown error leaves the async handler
\* (there is no try/catch); a value is pushed and the loop goes on to the
\* next call or, after the last, to the tool response.
ToolCallSettled(c, h, outcome) ==
  /\ h \in 1..Len(handlers[c])
  /\ LET hd == handlers[c][h]
         fc == hd.calls[Len(hd.responses) + 1]
         results == Append(hd.results, outcome)
         responses == Append(hd.responses, ToolResult(fc, outcome))
         last == Len(responses) = Len(hd.calls)
     IN  IF outcome = Thrown
           THEN /\ handlers' = Upd(handlers, c, RemoveAt(handlers[c], h))
                /\ toolLog' = Upd(toolLog, c, <<
                      [calls |-> hd.calls, results |-> results, responses |-> hd.responses,
                       outcome |-> "rejected", submitted |-> FALSE]>>)
                /\ UNCHANGED <<sent, thenQueue>>
           ELSE IF ~last
           THEN /\ handlers' = Upd(handlers, c, [handlers[c] EXCEPT ![h] =
                      [calls |-> hd.calls, results |-> results, responses |-> responses]])
                /\ UNCHANGED <<toolLog, sent, thenQueue>>
           ELSE /\ Len(sent[c]) < MaxSent
                /\ handlers' = Upd(handlers, c, RemoveAt(handlers[c], h))
                /\ sent' = Upd(sent, c, SentAfter(c, <<ToolResponse(responses)>>))
                /\ thenQueue' = Upd(thenQueue, c, QueueAfter(c, <<ToolResponse(responses)>>))
                /\ toolLog' = Upd(toolLog, c, <<
                      [calls |-> hd.calls, results |-> results, responses |-> responses,
                       outcome |-> "resolved", submitted |-> sessionPromise[c] # Null]>>)
  /\ UNCHANGED clientVars
  /\ UNCHANGED <<transport, micRequest, disconnectCalls, disconnectLog, received,
                 framesCaptured, currentTime, scheduled, errorReported>>
  /\ UNCHANGED obsVars
  /\ UNCHANGED appVars
  /\ UNCHANGED <<editVars, callVars>>

\* The output device clock advances while its context runs.
Tick(c) ==
  /\ outputAudioContext[c] = "running"
  /\ currentTime[c] < MaxClock
  /\ currentTime' = Upd(currentTime, c, currentTime[c] + 1)
  /\ UNCHANGED clientVars
  /\ UNCHANGED <<transport, thenQueue, sent, micRequest, disconnectCalls, disconnectLog,
                 handlers, toolLog, received, framesCaptured, scheduled, errorReported>>
  /\ UNCHANGED obsVars
  /\ UNCHANGED appVars
  /\ UNCHANGED <<editVars, callVars>>

\* ------------------------------------------------------------------ disconnect
\* AudioContext.close() rejects with InvalidStateError on a context that is
\* already closed; otherwise the context is closed at once and the returned
\* promise resolves later.

\* The continuation of toggleLiveMode's `await liveClientRef.current.disconnect()`:
\* liveClientRef.current = null; setIsLiveMode(false); setLiveCaption(null);
\* addLog.  It runs only when the awaited call resolves.
AfterDisconnect(caller, outcome) ==
  IF caller = "toggle" /\ outcome = "resolved"
    THEN /\ liveClientRef' = NoClient
         /\ isLiveMode' = IF mounted THEN FALSE ELSE isLiveMode
         /\ liveCaption' = IF mounted THEN NoCaption ELSE liveCaption
         /\ AddLog(<<"Live Session Ended">>, "warning")
    ELSE UNCHANGED <<liveClientRef, isLiveMode, liveCaption, logs>>

\* disconnect()'s last statements: drop the connection reference, reset buffers.
DisconnectFinish(c) ==
  /\ sessionPromise' = Upd(sessionPromise, c, Null)
  /\ currentInputText' = Upd(currentInputText, c, <<>>)
  /\ currentOutputText' = Upd(currentOutputText, c, <<>>)

\* How a disconnect() call entered now leaves its first segment.
DisconnectOutcome(c) ==
  IF inputAudioContext[c] # Null
    THEN (IF inputAudioContext[c] = "closed" THEN "rejected" ELSE "pending")
    ELSE IF outputAudioContext[c] # Null
    THEN (IF outputAudioContext[c] = "closed" THEN "rejected" ELSE "pending")
    ELSE "resolved"

\* Mutant of EntrySteps: the context is closed before the tracks are stopped.
EntryStepsContextFirst(c) ==
  (IF inputAudioContext[c] # Null THEN <<"inputContext">>
     ELSE IF outputAudioContext[c] # Null THEN <<"outputContext">> ELSE <<>>)
  \o (IF stream[c] # Null THEN <<"tracks">> ELSE <<>>)
  \o (IF processor[c] # Null THEN <<"processor">> ELSE <<>>)
  \o (IF inputSource[c] # Null THEN <<"source">> ELSE <<>>)

\* The teardown steps of disconnect()'s first segment, in statement order:
\* stop the tracks, disconnect the processor and clear its callback,
\* disconnect the source, call close() on the first context that exists.
EntrySteps(c) ==
  (IF stream[c] # Null THEN <<"tracks">> ELSE <<>>)
  \o (IF processor[c] # Null THEN <<"processor">> ELSE <<>>)
  \o (IF inputSource[c] # Null THEN <<"source">> ELSE <<>>)
  \o (IF inputAudioContext[c] # Null THEN <<"inputContext">>
        ELSE IF outputAudioContext[c] # Null THEN <<"outputContext">> ELSE <<>>)

\* disconnect() from its entry to its first await (or to its end).
DisconnectTeardown(c, caller) ==
  /\ Len(disconnectLog[c]) + Len(disconnectCalls[c]) < MaxDisconnects
  /\ stream' = IF stream[c] # Null THEN Upd(stream, c, "stopped") ELSE stream
  /\ processor' = IF processor[c] # Null THEN Upd(processor, c, "removed") ELSE processor
  /\ inputSource' = IF inputSource[c] # Null THEN Upd(inputSource, c, "disconnected")
                    ELSE inputSource
  /\ IF inputAudioContext[c] # Null
       THEN /\ inputAudioContext' = Upd(inputAudioContext, c, "closed")
            /\ UNCHANGED outputAudioContext
       ELSE IF outputAudioContext[c] # Null
       THEN /\ outputAudioContext' = Upd(outputAudioContext, c, "closed")
            /\ UNCHANGED inputAudioContext
       ELSE UNCHANGED <<inputAudioContext, outputAudioContext>>
  /\ CASE DisconnectOutcome(c) = "pending" ->
            /\ disconnectCalls' = Upd(disconnectCalls, c, Append(disconnectCalls[c],
                 [pc |-> IF inputAudioContext[c] # Null THEN "awaitInputClose"
                         ELSE "awaitOutputClose",
                  caller |-> caller,
                  steps |-> EntrySteps(c)]))
            /\ UNCHANGED <<disconnectLog, sessionPromise, currentInputText,
                           currentOutputText, teardown>>
       [] DisconnectOutcome(c) = "rejected" ->
            /\ disconnectLog' = Upd(disconnectLog, c, Append(disconnectLog[c], "rejected"))
            /\ teardown' = Upd(teardown, c, EntrySteps(c))
            /\ UNCHANGED <<disconnectCalls, sessionPromise, currentInputText,
                           currentOutputText>>
       [] DisconnectOutcome(c) = "resolved" ->
            /\ disconnectLog' = Upd(disconnectLog, c, Append(disconnectLog[c], "resolved"))
            /\ teardown' = Upd(teardown, c, Append(EntrySteps(c), "reference"))
            /\ DisconnectFinish(c)
            /\ UNCHANGED disconnectCalls
  /\ UNCHANGED <<connectResult, onOpenCalls, errorReasons, transcriptions, lastTranscript,
                 frameCalls, lastFrame>>
  /\ UNCHANGED nextStartTime
  /\ UNCHANGED <<transport, thenQueue, sent, micRequest, handlers, toolLog, received,
                 framesCaptured, currentTime, scheduled, errorReported>>

\* A disconnect() call and what its caller does when it returns at once.
DisconnectEntry(c, caller) ==
  /\ DisconnectTeardown(c, caller)
  /\ AfterDisconnect(caller, DisconnectOutcome(c))

\* disconnect() called by some other holder of the client.
Disconnect(c) ==
  /\ DisconnectEntry(c, "caller")
  /\ UNCHANGED <<created, mounted, isConnecting, captionTimeout, currentImage,
                 closureImage, envApiKey, editVars, callVars>>

\* disconnect() resumes after `await this.inputAudioContext.close()`.
DisconnectInputClosed(c, k) ==
  /\ k \in 1..Len(disconnectCalls[c])
  /\ disconnectCalls[c][k].pc = "awaitInputClose"
  /\ LET caller == disconnectCalls[c][k].caller
         steps == disconnectCalls[c][k].steps
     IN  CASE outputAudioContext[c] = "running" ->
                /\ outputAudioContext' = Upd(outputAudioContext, c, "closed")
                /\ disconnectCalls' = Upd(disconnectCalls, c,
                     [disconnectCalls[c] EXCEPT ![k].pc = "awaitOutputClose",
                                                ![k].steps = Append(steps, "outputContext")])
                /\ UNCHANGED <<disconnectLog, sessionPromise, currentInputText,
                               currentOutputText, teardown>>
                /\ AfterDisconnect(caller, "pending")
           [] outputAudioContext[c] = "closed" ->
                /\ disconnectCalls' = Upd(disconnectCalls, c, RemoveAt(disconnectCalls[c], k))
                /\ disconnectLog' = Upd(disconnectLog, c, Append(disconnectLog[c], "rejected"))
                /\ teardown' = Upd(teardown, c, Append(steps, "outputContext"))
                /\ UNCHANGED <<outputAudioContext, sessionPromise, currentInputText,
                               currentOutputText>>
                /\ AfterDisconnect(caller, "rejected")
           [] outputAudioContext[c] = Null ->
                /\ disconnectCalls' = Upd(disconnectCalls, c, RemoveAt(disconnectCalls[c], k))
                /\ disconnectLog' = Upd(disconnectLog, c, Append(disconnectLog[c], "resolved"))
                /\ teardown' = Upd(teardown, c, Append(steps, "reference"))
                /\ DisconnectFinish(c)
                /\ UNCHANGED outputAudioContext
                /\ AfterDisconnect(caller, "resolved")
  /\ UNCHANGED <<inputAudioContext, inputSource, processor, stream, nextStartTime>>
  /\ UNCHANGED <<connectResult, onOpenCalls, errorReasons, transcriptions, lastTranscript,
                 frameCalls, lastFrame>>
  /\ UNCHANGED <<transport, thenQueue, sent, micRequest, handlers, toolLog, received,
                 framesCaptured, currentTime, scheduled, errorReported>>
  /\ UNCHANGED <<created, mounted, isConnecting, captionTimeout, currentImage,
                 closureImage, envApiKey, editVars, callVars>>

\* disconnect() resumes after `await this.outputAudioContext.close()`.
DisconnectOutputClosed(c, k) ==
  /\ k \in 1..Len(disconnectCalls[c])
  /\ disconnectCalls[c][k].pc = "awaitOutputClose"
  /\ disconnectCalls' = Upd(disconnectCalls, c, RemoveAt(disconnectCalls[c], k))
  /\ disconnectLog' = Upd(disconnectLog, c, Append(disconnectLog[c], "resolved"))
  /\ teardown' = Upd(teardown, c, Append(disconnectCalls[c][k].steps, "reference"))
  /\ DisconnectFinish(c)
  /\ AfterDisconnect(disconnectCalls[c][k].caller, "resolved")
  /\ UNCHANGED <<connectResult, onOpenCalls, errorReasons, transcriptions, lastTranscript,
                 frameCalls, lastFrame>>
  /\ UNCHANGED <<inputAudioContext, outputAudioContext, inputSource, processor, stream,
                 nextStartTime>>
  /\ UNCHANGED <<transport, thenQueue, sent, micRequest, handlers, toolLog, received,
                 framesCaptured, currentTime, scheduled, errorReported>>
  /\ UNCHANGED <<created, mounted, isConnecting, captionTimeout, currentImage,
                 closureImage, envApiKey, editVars, callVars>>

\* -------------------------------------------------------------- PCM conversion
\* A captured sample is the exact rational n / SampleUnit, on a grid twice
\* as fine as the 16-bit one (every such value is a Float32).  The products
\* of the source are exact in double precision, so integer arithmetic on n
\* reproduces them; it is arranged to stay within 32 bits.
PositiveScale == 32767     \* 0x7FFF
NegativeScale == 32768     \* 0x8000
PcmDivisor == 32768        \* 32768.0
Int16Modulus == 65536      \* 2^16, the width of an Int16Array element
SampleUnit == 2 * NegativeScale
MaxSample == SampleUnit + MaxOver

\* Math.max(-1, Math.min(1, x)) on a sample given in units of 1/SampleUnit
Clamped(n) == IF n < -SampleUnit THEN -SampleUnit
              ELSE IF n > SampleUnit THEN SampleUnit ELSE n

\* For a sample of magnitude m / SampleUnit (m >= 0) and a scale k: the
\* integer part of the product (m / SampleUnit) * k, and the numerator of
\* its fractional part over SampleUnit.
Whole(m, k) == (m \div SampleUnit) * k + ((m % SampleUnit) * k) \div SampleUnit
Rest(m, k) == ((m % SampleUnit) * k) % SampleUnit

\* Storing an integer into an Int16Array element: modulo 2^16, signed.
ToInt16(v) == ((v + (Int16Modulus \div 2)) % Int16Modulus) - (Int16Modulus \div 2)

\* Mutant of FloatTo16BitPCM: both signs are scaled by 0x8000.
FloatTo16BitPCMOneScale(n) ==
  LET s == Clamped(n)
  IN  ToInt16(IF s < 0 THEN -Whole(-s, NegativeScale) ELSE Whole(s, NegativeScale))

\* floatTo16BitPCM on one sample:
\*   const s = Math.max(-1, Math.min(1, input[i]));
\*   output[i] = s < 0 ? s * 0x8000 : s * 0x7FFF;
\* The assignment to the Int16Array element converts with ToInt16, which
\* drops the fractional part (toward zero) and wraps modulo 2^16.
FloatTo16BitPCM(n) ==
  LET s == Clamped(n)
  IN  ToInt16(IF s < 0 THEN -Whole(-s, NegativeScale) ELSE Whole(s, PositiveScale))

\* pcm16ToFloat32 on one sample: `float32[i] = int16[i] / 32768.0`, kept as
\* the exact fraction (it is a Float32).
Pcm16ToFloat32(v) == [num |-> v, den |-> PcmDivisor]

NoPcmCall == [sample |-> 0, pcm |-> <<>>, float |-> <<>>]

\* floatTo16BitPCM applied to the captured sample.
FloatTo16BitPCMCalled ==
  /\ pcmCall.pcm = <<>>
  /\ pcmCall' = [pcmCall EXCEPT !.pcm = <<FloatTo16BitPCM(pcmCall.sample)>>]
  /\ UNCHANGED <<clientVars, asyncVars, obsVars, appVars, editVars, editCall>>

\* pcm16ToFloat32 applied to the converted sample.
Pcm16ToFloat32Called ==
  /\ pcmCall.pcm # <<>>
  /\ pcmCall.float = <<>>
  /\ pcmCall' = [pcmCall EXCEPT !.float = <<Pcm16ToFloat32(pcmCall.pcm[1])>>]
  /\ UNCHANGED <<clientVars, asyncVars, obsVars, appVars, editVars, editCall>>

\* ------------------------------------------------------------------- editImage
\* What editImage reads of a GenerateContentResponse.  A candidate's content
\* and the content's parts may each be undefined; a part carries text or
\* inline data (the raw base64 of an image).  `rejected` stands for a
\* generateContent call whose promise rejects (no response at all).
FinishReasons == {Null, "STOP", "SAFETY"}     \* Null: no finishReason
EditedData == {"CCCC", "DDDD"}

TextPart == [text |-> "caption", inlineData |-> <<>>]
ImagePart(data) == [text |-> Null, inlineData |-> <<data>>]
Parts == {TextPart} \cup {ImagePart(d) : d \in EditedData}
PartLists == UNION {[1..n -> Parts] : n \in 0..MaxParts}

Candidates ==
  {c \in [finishReason : FinishReasons, hasContent : BOOLEAN, hasParts : BOOLEAN,
          parts : PartLists] :
     /\ ~c.hasContent => ~c.hasParts
     /\ ~c.hasParts => c.parts = <<>>}

Rejected == [rejected |-> TRUE, candidates |-> <<>>]
Replies == {Rejected}
             \cup {[rejected |-> FALSE, candidates |-> cs] :
                     cs \in {<<>>} \cup {<<c>> : c \in Candidates}}

\* The promise editImage returns: resolved with a data URL ("header,data")
\* or rejected with an Error; `requested` tells whether generateContent
\* was called.
Failure(message, requested) ==
  [ok |-> FALSE, value |-> NoImage, error |-> message, requested |-> requested]
Success(data) ==
  [ok |-> TRUE, value |-> <<"data:image/png;base64", data>>, error |-> "",
   requested |-> TRUE]

\* candidate.content?.parts, with undefined read as no parts
ContentParts(candidate) ==
  IF candidate.hasContent /\ candidate.hasParts THEN candidate.parts ELSE <<>>

\* Mutant of FirstImagePart: the last part with inline data is taken.
LastImagePart(parts) ==
  LET with == {i \in 1..Len(parts) : parts[i].inlineData # <<>>}
  IN  IF with = {} THEN 0 ELSE CHOOSE i \in with : \A j \in with : j <= i

\* `for (const part of parts) { if (part.inlineData) { return ... } }`:
\* the position of the part the loop returns from, 0 when it runs out.
FirstImagePart(parts) ==
  LET with == {i \in 1..Len(parts) : parts[i].inlineData # <<>>}
  IN  IF with = {} THEN 0 ELSE CHOOSE i \in with : \A j \in with : i <= j

\* Mutant of Extracted: a response without an image part yields an empty
\* data URL instead of an error.
ExtractedLenient(reply) ==
  IF reply.candidates = <<>>
    THEN Failure("No candidates returned from Gemini API.", TRUE)
    ELSE LET parts == ContentParts(reply.candidates[1])
             k == FirstImagePart(parts)
         IN  IF k = 0 THEN Success("") ELSE Success(parts[k].inlineData[1])

\* editImage from `const candidate = response.candidates?.[0]` to its end.
Extracted(reply) ==
  IF reply.candidates = <<>>
    THEN Failure("No candidates returned from Gemini API.", TRUE)
    ELSE LET candidate == reply.candidates[1]
             parts == ContentParts(candidate)
             k == FirstImagePart(parts)
         IN  IF /\ candidate.finishReason \notin {Null, "STOP"}
                /\ Len(parts) = 0
               THEN Failure("Gemini refused to generate content. Reason: SAFETY", TRUE)
             ELSE IF Len(parts) = 0
               THEN Failure("No content generated from Gemini (empty parts).", TRUE)
             ELSE IF k = 0
               THEN Failure("No image data found in response.", TRUE)
             ELSE Success(parts[k].inlineData[1])

\* editImage(base64Image, prompt) of services/geminiService.ts, the one the
\* controller imports.  It passes process.env.API_KEY to the GoogleGenAI
\* constructor, which in a browser throws when the key is null or undefined;
\* the catch block rethrows every error.
EditImage(envKey, reply) ==
  IF ~envKey
    THEN Failure("An API Key must be set when running in a browser", FALSE)
  ELSE IF reply.rejected THEN Failure("request failed", TRUE)
  ELSE Extracted(reply)

\* editImage(base64Image, prompt, apiKey), the variant with a key parameter:
\* `const key = apiKey || process.env.API_KEY; if (!key) throw ...`
EditImageWithKey(apiKey, envKey, reply) ==
  IF ~(apiKey \/ envKey)
    THEN Failure("API Key is missing. Please provide a valid Gemini API Key in settings.",
                 FALSE)
  ELSE IF reply.rejected THEN Failure("request failed", TRUE)
  ELSE Extracted(reply)

NoEditCall == [apiKey |-> FALSE, envKey |-> FALSE, reply |-> Rejected,
               returned |-> <<>>, returnedWithKey |-> <<>>]

\* One call of editImage as imported by the controller.
EditImageCalled ==
  /\ editCall.returned = <<>>
  /\ editCall' = [editCall EXCEPT
                    !.returned = <<EditImage(editCall.envKey, editCall.reply)>>]
  /\ UNCHANGED <<clientVars, asyncVars, obsVars, appVars, editVars, pcmCall>>

\* One call of the variant with a key parameter.
EditImageWithKeyCalled ==
  /\ editCall.returnedWithKey = <<>>
  /\ editCall' = [editCall EXCEPT
                    !.returnedWithKey =
                       <<EditImageWithKey(editCall.apiKey, editCall.envKey, editCall.reply)>>]
  /\ UNCHANGED <<clientVars, asyncVars, obsVars, appVars, editVars, pcmCall>>

\* ------------------------------------------------------------------ controller
\* connect(apiKey) as called by any holder of a client: `apiKey || process.env.API_KEY`
ConnectCall(c, apiKey) ==
  /\ Connect(c, apiKey \/ envApiKey)
  /\ UNCHANGED appVars
  /\ UNCHANGED <<editVars, callVars>>

\* toggleLiveMode (the button is disabled while !currentImage || isConnecting).
\* Stop: `await liveClientRef.current.disconnect()`, then clear the reference
\* and the live-mode state.  Start: setIsConnecting(true), construct a client
\* whose callbacks close over the current render, `await client.connect()`
\* (no key argument), then liveClientRef.current = client; the catch block
\* resets isConnecting and logs the failure.
ToggleLiveMode ==
  /\ mounted
  /\ currentImage # NoImage
  /\ ~isConnecting
  /\ IF isLiveMode
       THEN /\ IF liveClientRef # NoClient
                 THEN DisconnectEntry(liveClientRef, "toggle")
                 ELSE /\ isLiveMode' = FALSE
                      /\ liveCaption' = NoCaption
                      /\ AddLog(<<"Live Session Ended">>, "warning")
                      /\ UNCHANGED liveClientRef
                      /\ UNCHANGED clientVars
                      /\ UNCHANGED asyncVars
                      /\ UNCHANGED obsVars
            /\ UNCHANGED <<created, mounted, isConnecting, captionTimeout, currentImage,
                           closureImage, envApiKey, editVars, callVars>>
       ELSE /\ created < MaxClients
            /\ created' = created + 1
            /\ closureImage' = Upd(closureImage, created + 1, currentImage)
            /\ closureIndex' = Upd(closureIndex, created + 1, historyIndex)
            /\ Connect(created + 1, envApiKey)
            /\ isConnecting' = envApiKey
            /\ liveClientRef' = IF envApiKey THEN created + 1 ELSE liveClientRef
            /\ IF envApiKey
                 THEN AddLog(<<"Connecting to Tigist (Live Agent)...">>, "info")
                 ELSE AddLog(<<"Failed to start Live Session">>, "error")
            /\ UNCHANGED <<mounted, isLiveMode, liveCaption, captionTimeout, currentImage,
                           envApiKey, callVars>>
            /\ UNCHANGED <<history, historyIndex, appState, prompt, edits, errorTimers,
                           lastEdit>>

\* handleImageSelected: the FileReader's onload sets the current image,
\* makes the history the single item 'original' and logs the upload
\* (message: a fixed Amharic word and the file's name).
ImageSelected(img) ==
  /\ mounted
  /\ currentImage' = img
  /\ history' = <<img>>
  /\ historyIndex' = 0
  /\ AddLog(<<"uploaded: ", "file.name">>, "success")
  /\ UNCHANGED clientVars
  /\ UNCHANGED asyncVars
  /\ UNCHANGED obsVars
  /\ UNCHANGED <<created, mounted, isLiveMode, isConnecting, liveCaption, captionTimeout,
                 liveClientRef, closureImage, envApiKey, callVars>>
  /\ UNCHANGED <<appState, prompt, edits, errorTimers, lastEdit, closureIndex>>

\* An upload whose file is read while the upload zone is still shown (it is
\* rendered only while there is no current image).
Upload(img) ==
  /\ currentImage = NoImage
  /\ ImageSelected(img)

\* The caption's 2 s timer set by onTranscription: setLiveCaption(null).
CaptionTimeout ==
  /\ captionTimeout
  /\ captionTimeout' = FALSE
  /\ liveCaption' = IF mounted THEN NoCaption ELSE liveCaption
  /\ UNCHANGED clientVars
  /\ UNCHANGED asyncVars
  /\ UNCHANGED obsVars
  /\ UNCHANGED <<created, mounted, isLiveMode, isConnecting, liveClientRef, currentImage,
                 logs, closureImage, envApiKey, editVars, callVars>>

\* The effect cleanup on unmount: disconnect the referenced client (not
\* awaited) and clear the caption timer.
Unmount ==
  /\ mounted
  /\ mounted' = FALSE
  /\ captionTimeout' = FALSE
  /\ IF liveClientRef # NoClient
       THEN DisconnectEntry(liveClientRef, "cleanup")
       ELSE /\ UNCHANGED clientVars
            /\ UNCHANGED asyncVars
            /\ UNCHANGED obsVars
            /\ UNCHANGED <<liveClientRef, isLiveMode, liveCaption, logs>>
  /\ UNCHANGED <<created, isConnecting, currentImage, closureImage, envApiKey, editVars, callVars>>

\* handleHome: `if (isLiveMode) toggleLiveMode()` is not awaited, so the stop
\* branch runs to its `await disconnect()` (or, without a client, to its
\* end) before the resets and Home's own log entry.  A disconnect() that
\* resolves at once resumes toggleLiveMode in a microtask, after Home has
\* returned and before any other event, so its log entry is the newest.
Home ==
  /\ mounted
  /\ IF isLiveMode /\ liveClientRef # NoClient
       THEN /\ DisconnectTeardown(liveClientRef, "toggle")
            /\ IF DisconnectOutcome(liveClientRef) = "resolved"
                 THEN /\ liveClientRef' = NoClient
                      /\ isLiveMode' = FALSE
                      /\ liveCaption' = NoCaption
                 ELSE UNCHANGED <<liveClientRef, isLiveMode, liveCaption>>
       ELSE /\ isLiveMode' = FALSE
            /\ liveCaption' = IF isLiveMode THEN NoCaption ELSE liveCaption
            /\ UNCHANGED liveClientRef
            /\ UNCHANGED clientVars
            /\ UNCHANGED asyncVars
            /\ UNCHANGED obsVars
  /\ currentImage' = NoImage
  /\ history' = <<>>
  /\ historyIndex' = -1
  /\ prompt' = ""
  /\ appState' = "IDLE"
  /\ IF isLiveMode /\ liveClientRef # NoClient
          /\ DisconnectOutcome(liveClientRef) = "resolved"
       THEN AddLog(<<"Live Session Ended">>, "warning")
       ELSE AddLog(<<"cleared">>, "info")
  /\ UNCHANGED <<created, mounted, isConnecting, captionTimeout, closureImage, envApiKey,
                 callVars>>
  /\ UNCHANGED <<edits, errorTimers, lastEdit, closureIndex>>

\* ------------------------------------------------------------- edits and history
Prompts == {"", " ", "warmer"}

\* prompt.trim() is empty
Blank(p) == p \in {"", " "}

\* The replies the edit service gives to the controller's requests.
ImageReply(data) ==
  [rejected |-> FALSE,
   candidates |-> <<[finishReason |-> "STOP", hasContent |-> TRUE, hasParts |-> TRUE,
                     parts |-> <<ImagePart(data)>>]>>]
EditReplies == {ImageReply(d) : d \in EditedData}
                 \cup {[rejected |-> FALSE, candidates |-> <<>>]}

NoEdit == [result |-> Null, via |-> Null, url |-> NoImage]

\* A React state update: dropped once the component is unmounted.
SetState(new, old) == IF mounted THEN new ELSE old

\* Mutant of Slice: nothing is kept.
SliceEmpty(prev, end) == <<>>

\* prev.slice(0, end) for end >= 0
Slice(prev, end) == SubSeq(prev, 1, IF end < Len(prev) THEN end ELSE Len(prev))

\* Mutant of EditResult: a failure leaves handleExternalEdit as an exception.
EditResultRethrown(r) == IF r.ok THEN "Image edited successfully" ELSE Thrown

\* What handleExternalEdit returns: both the try and the catch block end
\* with a return of a string.
EditResult(r) == IF r.ok THEN "Image edited successfully" ELSE "Failed to edit image"

\* handleExternalEdit after `await editImage(img, txt)` for the call e whose
\* promise settled with r: the try block's remainder or the catch block.
\* setHistory and setHistoryIndex take updater functions, so `prev` is the
\* state at the time of the update, while historyIndex in the slice is the
\* one of the render that created the running handleExternalEdit (e.index).
EditFinished(e, r) ==
  /\ IF r.ok
       THEN /\ currentImage' = SetState(r.value, currentImage)
            /\ history' = SetState(Append(Slice(history, e.index + 1), r.value), history)
            /\ historyIndex' = SetState(historyIndex + 1, historyIndex)
            /\ AddLog(<<"edit completed">>, "success")
            /\ appState' = SetState("IDLE", appState)
            /\ UNCHANGED errorTimers
       ELSE /\ AddLog(<<IF r.error = "" THEN "Edit Failed" ELSE r.error>>, "error")
            /\ appState' = SetState("ERROR", appState)
            /\ errorTimers' = errorTimers + 1
            /\ UNCHANGED <<currentImage, history, historyIndex>>
  /\ lastEdit' = [result |-> EditResult(r), via |-> e.via, url |-> r.value]

\* The command input's onChange (the input is disabled while
\* !currentImage || appState === ANALYZING, the form is not rendered in
\* live mode).
SetPrompt(p) ==
  /\ mounted
  /\ ~isLiveMode
  /\ currentImage # NoImage
  /\ appState # "ANALYZING"
  /\ prompt' = p
  /\ UNCHANGED <<clientVars, asyncVars, obsVars, appVars, callVars>>
  /\ UNCHANGED <<history, historyIndex, appState, edits, errorTimers, lastEdit,
                 closureIndex>>

\* handleCommandSubmit up to `await editImage` inside handleExternalEdit:
\* the guard, the command's log entry, setAppState(ANALYZING) and the
\* request.  Without a key editImage rejects before it awaits anything, so
\* the catch block and setPrompt('') run in the same segment.  At most
\* `pending` requests and error timers are followed at a time.
HandleCommandSubmit(pending) ==
  /\ mounted
  /\ ~isLiveMode
  /\ currentImage # NoImage
  /\ ~Blank(prompt)
  /\ appState # "ANALYZING"
  /\ Len(edits) + errorTimers < pending
  /\ Len(history) + Len(edits) < MaxHistory
  /\ LET e == [img |-> currentImage, index |-> historyIndex, issuedOn |-> history,
               via |-> "command", client |-> NoClient]
     IN  IF envApiKey
           THEN /\ AddLog(<<"command: ", prompt>>, "info")
                /\ appState' = "ANALYZING"
                /\ edits' = Append(edits, e)
                /\ UNCHANGED <<currentImage, history, historyIndex, prompt, errorTimers,
                               lastEdit>>
           ELSE /\ EditFinished(e, EditImage(envApiKey, Rejected))
                /\ prompt' = ""
                /\ UNCHANGED edits
  /\ UNCHANGED <<clientVars, asyncVars, obsVars, callVars>>
  /\ UNCHANGED <<created, mounted, isLiveMode, isConnecting, liveCaption, captionTimeout,
                 liveClientRef, closureImage, envApiKey, closureIndex>>

\* A submit of the command form while nothing else is pending.
CommandSubmit == HandleCommandSubmit(MaxEdits)

\* The controller's onToolCall closure of client c, called with fc, calls
\* handleExternalEdit (and so suspends at `await editImage`):
\* `toolCall.name === 'edit_image'` and `currentImage` of the render that
\* constructed the client is not null.
StartsEdit(c, fc) == fc.name = "edit_image" /\ closureImage[c] # NoImage

\* What onToolCall resolves to for a call that starts no edit.
ToolReturn(c, fc) == IF fc.name = "edit_image" THEN "No image to edit" ELSE Undefined

\* onmessage's tool loop run from the state hd of an invocation through
\* every call the controller answers at once, up to the first call that
\* starts an edit or to the end of the batch.
RECURSIVE Advanced(_, _)
Advanced(c, hd) ==
  IF Len(hd.responses) = Len(hd.calls) THEN hd
  ELSE LET fc == hd.calls[Len(hd.responses) + 1]
       IN  IF StartsEdit(c, fc) THEN hd
           ELSE Advanced(c, [calls |-> hd.calls,
                             results |-> Append(hd.results, ToolReturn(c, fc)),
                             responses |-> Append(hd.responses,
                                                  ToolResult(fc, ToolReturn(c, fc)))])

\* The end of onmessage's tool loop for the finished invocation hd:
\* `this.sessionPromise?.then(session => session.sendToolResponse(...))`
ResponsesSent(c, hd) ==
  /\ Len(sent[c]) < MaxSent
  /\ sent' = Upd(sent, c, SentAfter(c, <<ToolResponse(hd.responses)>>))
  /\ thenQueue' = Upd(thenQueue, c, QueueAfter(c, <<ToolResponse(hd.responses)>>))
  /\ toolLog' = Upd(toolLog, c, <<
        [calls |-> hd.calls, results |-> hd.results, responses |-> hd.responses,
         outcome |-> "resolved", submitted |-> sessionPromise[c] # Null]>>)

\* callbacks.onmessage with the controller's onToolCall, up to the first
\* `await editImage` or to the end.  Every edit_image call is logged; a call
\* that starts no edit is answered within the same segment.  The edit
\* started here runs in the closure of the render that constructed the
\* client (closureImage, closureIndex).  A batch holds at most one
\* edit_image call.
OnMessageApp(c, m) ==
  /\ OnMessageContent(c, m)
  /\ LET hd == Advanced(c, [calls |-> m.toolCall, results |-> <<>>, responses |-> <<>>])
         reached == IF Len(hd.responses) < Len(hd.calls)
                      THEN Len(hd.responses) + 1 ELSE Len(hd.calls)
     IN  /\ IF \E i \in 1..reached : m.toolCall[i].name = "edit_image"
               THEN AddLog(<<"Live Command: ", "args.prompt">>, "info")
               ELSE UNCHANGED logs
         /\ IF m.toolCall = <<>>
               THEN UNCHANGED <<handlers, sent, thenQueue, toolLog, editVars>>
             ELSE IF Len(hd.responses) = Len(hd.calls)
               THEN /\ ResponsesSent(c, hd)
                    /\ UNCHANGED <<handlers, editVars>>
             ELSE /\ handlers' = Upd(handlers, c, Append(handlers[c], hd))
                  /\ appState' = SetState("ANALYZING", appState)
                  /\ edits' = Append(edits,
                       [img |-> closureImage[c], index |-> closureIndex[c],
                        issuedOn |-> history, via |-> "tool", client |-> c])
                  /\ UNCHANGED <<sent, thenQueue, toolLog>>
                  /\ UNCHANGED <<history, historyIndex, prompt, errorTimers, lastEdit,
                                 closureIndex>>

\* The position in handlers[c] of the onmessage invocation that awaits the
\* k-th pending edit: invocations suspend in the order their edits start.
HandlerOf(k) ==
  Cardinality({j \in 1..k : edits[j].via = "tool" /\ edits[j].client = edits[k].client})

\* An entry of `edits` holds what the suspended handleExternalEdit closes
\* over: img (its argument) and index (historyIndex of the render that
\* created it); and who called it and the history at that time.
\*
\* The k-th pending editImage call settles with the service's reply, and the
\* handleExternalEdit that awaited it runs to its return.  Its caller goes
\* on: handleCommandSubmit clears the prompt; onToolCall returns the result
\* to onmessage's tool loop, which answers the rest of the batch and sends
\* the tool response.
EditSettled(k, reply) ==
  /\ k \in 1..Len(edits)
  /\ EditFinished(edits[k], EditImage(envApiKey, reply))
  /\ edits' = RemoveAt(edits, k)
  /\ IF edits[k].via = "command"
       THEN /\ prompt' = SetState("", prompt)
            /\ UNCHANGED asyncVars
       ELSE LET c == edits[k].client
                h == HandlerOf(k)
                hd == handlers[c][h]
                fc == hd.calls[Len(hd.responses) + 1]
                result == EditResult(EditImage(envApiKey, reply))
                end == Advanced(c, [calls |-> hd.calls,
                                    results |-> Append(hd.results, result),
                                    responses |-> Append(hd.responses,
                                                         ToolResult(fc, result))])
            IN  /\ handlers' = Upd(handlers, c, RemoveAt(handlers[c], h))
                /\ ResponsesSent(c, end)
                /\ UNCHANGED prompt
                /\ UNCHANGED <<transport, micRequest, disconnectCalls, disconnectLog,
                               received, framesCaptured, currentTime, scheduled,
                               errorReported>>
  /\ UNCHANGED <<clientVars, obsVars, callVars>>
  /\ UNCHANGED <<created, mounted, isLiveMode, isConnecting, liveCaption, captionTimeout,
                 liveClientRef, closureImage, envApiKey, closureIndex>>

\* `setTimeout(() => setAppState(AppState.IDLE), 2000)` of a failed edit fires.
ErrorTimeout ==
  /\ errorTimers > 0
  /\ errorTimers' = errorTimers - 1
  /\ appState' = SetState("IDLE", appState)
  /\ UNCHANGED <<clientVars, asyncVars, obsVars, appVars, callVars>>
  /\ UNCHANGED <<history, historyIndex, prompt, edits, lastEdit, closureIndex>>

\* Mutant of Undo: the guard is `historyIndex >= 0`, so an undo at index 0
\* sets the index to -1 (and throws on history[-1].url).
UndoBelowFirst ==
  /\ mounted
  /\ ~isLiveMode
  /\ historyIndex >= 0
  /\ historyIndex' = historyIndex - 1
  /\ IF historyIndex > 0 /\ historyIndex <= Len(history)
       THEN /\ currentImage' = history[historyIndex]
            /\ AddLog(<<"undone">>, "warning")
       ELSE UNCHANGED <<currentImage, logs>>
  /\ UNCHANGED <<clientVars, asyncVars, obsVars, callVars>>
  /\ UNCHANGED <<created, mounted, isLiveMode, isConnecting, liveCaption, captionTimeout,
                 liveClientRef, closureImage, envApiKey>>
  /\ UNCHANGED <<history, appState, prompt, edits, errorTimers, lastEdit, closureIndex>>

\* handleUndo (the button is disabled while historyIndex <= 0 || isLiveMode).
\* history[newIndex] is undefined when the index lies past the end: reading
\* its url throws after setHistoryIndex was called.
Undo ==
  /\ mounted
  /\ ~isLiveMode
  /\ historyIndex > 0
  /\ historyIndex' = historyIndex - 1
  /\ IF historyIndex <= Len(history)
       THEN /\ currentImage' = history[historyIndex]
            /\ AddLog(<<"undone">>, "warning")
       ELSE UNCHANGED <<currentImage, logs>>
  /\ UNCHANGED <<clientVars, asyncVars, obsVars, callVars>>
  /\ UNCHANGED <<created, mounted, isLiveMode, isConnecting, liveCaption, captionTimeout,
                 liveClientRef, closureImage, envApiKey>>
  /\ UNCHANGED <<history, appState, prompt, edits, errorTimers, lastEdit, closureIndex>>

\* handleRedo (the button is disabled while
\* historyIndex >= history.length - 1 || isLiveMode).
Redo ==
  /\ mounted
  /\ ~isLiveMode
  /\ historyIndex < Len(history) - 1
  /\ historyIndex' = historyIndex + 1
  /\ currentImage' = history[historyIndex + 2]
  /\ AddLog(<<"redone">>, "success")
  /\ UNCHANGED <<clientVars, asyncVars, obsVars, callVars>>
  /\ UNCHANGED <<created, mounted, isLiveMode, isConnecting, liveCaption, captionTimeout,
                 liveClientRef, closureImage, envApiKey>>
  /\ UNCHANGED <<history, appState, prompt, edits, errorTimers, lastEdit, closureIndex>>

\* A click on the i-th thumbnail of the history strip:
\* `if (!isLiveMode) { setCurrentImage(item.url); setHistoryIndex(idx); }`
SelectHistory(i) ==
  /\ mounted
  /\ ~isLiveMode
  /\ i \in 1..Len(history)
  /\ currentImage' = history[i]
  /\ historyIndex' = i - 1
  /\ UNCHANGED <<clientVars, asyncVars, obsVars, callVars>>
  /\ UNCHANGED <<created, mounted, isLiveMode, isConnecting, liveCaption, captionTimeout,
                 liveClientRef, logs, closureImage, envApiKey>>
  /\ UNCHANGED <<history, appState, prompt, edits, errorTimers, lastEdit, closureIndex>>

\* -------------------------------------------------------------- specifications
\* Fields of a LiveClient after its constructor.
Constructed ==
  /\ sessionPromise = [c \in ClientIds |-> Null]
  /\ inputAudioContext = [c \in ClientIds |-> Null]
  /\ outputAudioContext = [c \in ClientIds |-> Null]
  /\ inputSource = [c \in ClientIds |-> Null]
  /\ processor = [c \in ClientIds |-> Null]
  /\ stream = [c \in ClientIds |-> Null]
  /\ nextStartTime = [c \in ClientIds |-> 0]
  /\ currentInputText = [c \in ClientIds |-> <<>>]
  /\ currentOutputText = [c \in ClientIds |-> <<>>]
  /\ transport = [c \in ClientIds |-> "idle"]
  /\ thenQueue = [c \in ClientIds |-> <<>>]
  /\ sent = [c \in ClientIds |-> <<>>]
  /\ micRequest = [c \in ClientIds |-> "none"]
  /\ disconnectCalls = [c \in ClientIds |-> <<>>]
  /\ disconnectLog = [c \in ClientIds |-> <<>>]
  /\ handlers = [c \in ClientIds |-> <<>>]
  /\ toolLog = [c \in ClientIds |-> <<>>]
  /\ received = [c \in ClientIds |-> 0]
  /\ framesCaptured = [c \in ClientIds |-> 0]
  /\ currentTime = [c \in ClientIds |-> 0]
  /\ scheduled = [c \in ClientIds |-> <<>>]
  /\ errorReported = [c \in ClientIds |-> FALSE]
  /\ connectResult = [c \in ClientIds |-> "none"]
  /\ onOpenCalls = [c \in ClientIds |-> 0]
  /\ errorReasons = [c \in ClientIds |-> {}]
  /\ transcriptions = [c \in ClientIds |-> <<>>]
  /\ lastTranscript = [c \in ClientIds |-> NoTranscript]
  /\ teardown = [c \in ClientIds |-> <<>>]
  /\ frameCalls = [c \in ClientIds |-> 0]
  /\ lastFrame = [c \in ClientIds |-> NoImage]

\* The App after its first render.
Mounted ==
  /\ mounted = TRUE
  /\ isLiveMode = FALSE
  /\ isConnecting = FALSE
  /\ liveCaption = NoCaption
  /\ captionTimeout = FALSE
  /\ liveClientRef = NoClient
  /\ logs = NoLog
  /\ appState = "IDLE"
  /\ prompt = ""
  /\ edits = <<>>
  /\ errorTimers = 0
  /\ lastEdit = NoEdit

\* No call of a pure function is being observed.
NotCalled ==
  /\ editCall = NoEditCall
  /\ pcmCall = NoPcmCall

\* One LiveClient, constructed with the controller's callbacks and held by a
\* caller that may call its public methods in any order.  The build defines
\* process.env as {} (vite.config.ts), so the key comes from the caller.
Init ==
  /\ Constructed
  /\ Mounted
  /\ envApiKey = FALSE
  /\ created = 1
  /\ currentImage \in Images \cup {NoImage}
  /\ closureImage = [c \in ClientIds |-> currentImage]
  /\ history = IF currentImage = NoImage THEN <<>> ELSE <<currentImage>>
  /\ historyIndex = Len(history) - 1
  /\ closureIndex = [c \in ClientIds |-> historyIndex]
  /\ NotCalled

\* The App before any upload and any live session.
NoSession ==
  /\ created = 0
  /\ currentImage = NoImage
  /\ closureImage = [c \in ClientIds |-> NoImage]
  /\ history = <<>>
  /\ historyIndex = -1
  /\ closureIndex = [c \in ClientIds |-> -1]

\* The App after its first render; AI Studio may inject the key.
InitApp ==
  /\ Constructed
  /\ Mounted
  /\ envApiKey \in BOOLEAN
  /\ NoSession
  /\ NotCalled

\* editImage about to be called with any key and any reply of the service.
InitEditImage ==
  /\ Constructed
  /\ Mounted
  /\ envApiKey = FALSE
  /\ NoSession
  /\ pcmCall = NoPcmCall
  /\ editCall \in [apiKey : BOOLEAN, envKey : BOOLEAN, reply : Replies,
                    returned : {<<>>}, returnedWithKey : {<<>>}]

\* A sample captured from the microphone, about to be converted.
InitPcm ==
  /\ Constructed
  /\ Mounted
  /\ envApiKey = FALSE
  /\ NoSession
  /\ editCall = NoEditCall
  /\ pcmCall \in [sample : (-MaxSample)..MaxSample, pcm : {<<>>}, float : {<<>>}]

\* Environments: the inbound messages each specification delivers.
ToolMessages == {[NoParts EXCEPT !.toolCall = b] : b \in Batches}
AudioMessages == {[NoParts EXCEPT !.audio = n] : n \in 1..MaxChunk}
TextMessages == {m \in AllMessages : m.audio = 0 /\ m.toolCall = <<>> /\ m # NoParts}

\* The session's life cycle: connect, transport events, microphone, capture,
\* image frames and disconnect.
Next ==
  \/ \E c \in 1..created, apiKey \in BOOLEAN : ConnectCall(c, apiKey)
  \/ \E c \in 1..created : OnOpen(c)
  \/ \E c \in 1..created : OnError(c)
  \/ \E c \in 1..created : OnClose(c)
  \/ \E c \in 1..created, sourceThrows \in BOOLEAN : MicGranted(c, sourceThrows)
  \/ \E c \in 1..created : MicDenied(c)
  \/ \E c \in 1..created : OnAudioProcess(c)
  \/ \E c \in 1..created, img \in Images : SendImageFrame(c, img)
  \/ \E c \in 1..created : Disconnect(c)
  \/ \E c \in 1..created, k \in 1..MaxDisconnects : DisconnectInputClosed(c, k)
  \/ \E c \in 1..created, k \in 1..MaxDisconnects : DisconnectOutputClosed(c, k)

Spec == Init /\ [][Next]_vars

\* The holder of the client has no image loaded.
InitTools == Init /\ currentImage = NoImage

\* Tool-call handling on a session that may be disconnected at any time.
NextTools ==
  \/ \E c \in 1..created, apiKey \in BOOLEAN : ConnectCall(c, apiKey)
  \/ \E c \in 1..created : OnOpen(c)
  \/ \E c \in 1..created, m \in ToolMessages : OnMessage(c, m)
  \/ \E c \in 1..created, h \in 1..MaxMessages, outcome \in ToolOutcomes :
       ToolCallSettled(c, h, outcome)
  \/ \E c \in 1..created : Disconnect(c)
  \/ \E c \in 1..created, k \in 1..MaxDisconnects : DisconnectInputClosed(c, k)
  \/ \E c \in 1..created, k \in 1..MaxDisconnects : DisconnectOutputClosed(c, k)

SpecTools == InitTools /\ [][NextTools]_vars

\* Playback scheduling against the output device clock.
NextPlay ==
  \/ \E c \in 1..created, apiKey \in BOOLEAN : ConnectCall(c, apiKey)
  \/ \E c \in 1..created : OnOpen(c)
  \/ \E c \in 1..created, m \in AudioMessages : OnMessage(c, m)
  \/ \E c \in 1..created : Tick(c)
  \/ \E c \in 1..created : Disconnect(c)
  \/ \E c \in 1..created, k \in 1..MaxDisconnects : DisconnectInputClosed(c, k)
  \/ \E c \in 1..created, k \in 1..MaxDisconnects : DisconnectOutputClosed(c, k)

SpecPlay == Init /\ [][NextPlay]_vars

\* Transcription: text fragments and turn ends on a session whose caption
\* timer may fire and which may be disconnected at any time.
NextText ==
  \/ \E c \in 1..created, apiKey \in BOOLEAN : ConnectCall(c, apiKey)
  \/ \E c \in 1..created : OnOpen(c)
  \/ \E c \in 1..created, m \in TextMessages : OnMessage(c, m)
  \/ CaptionTimeout
  \/ \E c \in 1..created : Disconnect(c)
  \/ \E c \in 1..created, k \in 1..MaxDisconnects : DisconnectInputClosed(c, k)
  \/ \E c \in 1..created, k \in 1..MaxDisconnects : DisconnectOutputClosed(c, k)

SpecText == InitTools /\ [][NextText]_vars

\* The controller's live mode: the toggle, uploads, unmount, and every
\* transport and microphone event of the clients it constructed.
NextApp ==
  \/ ToggleLiveMode
  \/ \E img \in Images : ImageSelected(img)
  \/ Unmount
  \/ \E c \in 1..created : OnOpen(c)
  \/ \E c \in 1..created : OnError(c)
  \/ \E c \in 1..created : OnClose(c)
  \/ \E c \in 1..created, sourceThrows \in BOOLEAN : MicGranted(c, sourceThrows)
  \/ \E c \in 1..created : MicDenied(c)
  \/ \E c \in 1..created, k \in 1..MaxDisconnects : DisconnectInputClosed(c, k)
  \/ \E c \in 1..created, k \in 1..MaxDisconnects : DisconnectOutputClosed(c, k)

SpecApp == InitApp /\ [][NextApp]_vars

\* One turn of the model heard by a capturing client: audio with its
\* transcription, a fragment of the user's speech, the end of the turn.
MixedMessages ==
  {[NoParts EXCEPT !.audio = 1, !.outputTranscription = "Hello"],
   [NoParts EXCEPT !.inputTranscription = "world"],
   [NoParts EXCEPT !.turnComplete = TRUE]}

\* The operations of a client next to its inbound messages: connect, the
\* transport opening, the microphone grant, capture, image frames and
\* disconnect.
NextFrame ==
  \/ \E c \in 1..created, apiKey \in BOOLEAN : ConnectCall(c, apiKey)
  \/ \E c \in 1..created : OnOpen(c)
  \/ \E c \in 1..created, sourceThrows \in BOOLEAN : MicGranted(c, sourceThrows)
  \/ \E c \in 1..created : OnAudioProcess(c)
  \/ \E c \in 1..created, img \in Images : SendImageFrame(c, img)
  \/ \E c \in 1..created, m \in MixedMessages : OnMessage(c, m)
  \/ \E c \in 1..created : Disconnect(c)
  \/ \E c \in 1..created, k \in 1..MaxDisconnects : DisconnectInputClosed(c, k)
  \/ \E c \in 1..created, k \in 1..MaxDisconnects : DisconnectOutputClosed(c, k)

SpecFrame == InitTools /\ [][NextFrame]_vars

\* Starting and stopping live mode by the toggle, with uploads in between,
\* while the App stays mounted, the microphone prompt stays unanswered and
\* the transport, once open, stays open.
NextStart ==
  \/ ToggleLiveMode
  \/ \E img \in Images : ImageSelected(img)
  \/ \E c \in 1..created : OnOpen(c)
  \/ \E c \in 1..created, k \in 1..MaxDisconnects : DisconnectInputClosed(c, k)
  \/ \E c \in 1..created, k \in 1..MaxDisconnects : DisconnectOutputClosed(c, k)

SpecStart == InitApp /\ [][NextStart]_vars

\* Messages carrying any combination of the five parts.
PartMessages ==
  {m \in AllMessages : /\ m.audio <= 1
                       /\ m.inputTranscription \in {Null, "Hello"}
                       /\ m.outputTranscription \in {Null, "world"}
                       /\ Len(m.toolCall) <= 1}

\* A connected client receiving messages of every composition while its
\* tool handler is at work.
NextParts ==
  \/ \E c \in 1..created, apiKey \in BOOLEAN : ConnectCall(c, apiKey)
  \/ \E c \in 1..created : OnOpen(c)
  \/ \E c \in 1..created, m \in PartMessages : OnMessage(c, m)

SpecParts == InitTools /\ [][NextParts]_vars

\* Attempts to start live mode.  The platform settles every close() promise
\* that disconnect() awaits, so the continuations are taken (weak fairness);
\* the network owes the client no event: a connection attempt may stay
\* silent, and nothing in the code bounds the wait.
NextConnecting ==
  \/ ToggleLiveMode
  \/ \E img \in Images : Upload(img)
  \/ \E c \in 1..created : OnOpen(c)
  \/ \E c \in 1..created : OnError(c)
  \/ \E c \in 1..created : MicDenied(c)
  \/ \E c \in 1..created, k \in 1..MaxDisconnects : DisconnectInputClosed(c, k)
  \/ \E c \in 1..created, k \in 1..MaxDisconnects : DisconnectOutputClosed(c, k)

FairContinuations ==
  \A c \in ClientIds, k \in 1..MaxDisconnects :
    /\ WF_vars(DisconnectInputClosed(c, k))
    /\ WF_vars(DisconnectOutputClosed(c, k))

SpecConnecting == InitApp /\ [][NextConnecting]_vars /\ FairContinuations

\* The controller's text edits: upload, command input, the edit service's
\* replies, the error timer, undo, redo and the history strip.
NextEdit ==
  \/ \E img \in Images : ImageSelected(img)
  \/ \E p \in Prompts : SetPrompt(p)
  \/ CommandSubmit
  \/ \E k \in 1..MaxEdits, reply \in EditReplies : EditSettled(k, reply)
  \/ ErrorTimeout
  \/ Undo
  \/ Redo
  \/ \E i \in 1..MaxHistory : SelectHistory(i)

SpecEdit == InitApp /\ [][NextEdit]_vars

\* Text edits submitted one after the other, also while an earlier request
\* or the error timer of a failed one is still pending.
NextSubmit ==
  \/ \E img \in Images : Upload(img)
  \/ \E p \in Prompts : SetPrompt(p)
  \/ HandleCommandSubmit(MaxEdits + 1)
  \/ \E k \in 1..(MaxEdits + 1), reply \in EditReplies : EditSettled(k, reply)
  \/ ErrorTimeout

SpecSubmit == InitApp /\ [][NextSubmit]_vars

\* Edits asked for by voice: a live session whose model calls the tools.
MaxPending == MaxEdits + MaxClients * MaxMessages

NextLiveEdit ==
  \/ \E img \in Images : Upload(img)
  \/ \E k \in 1..MaxPending, reply \in EditReplies : EditSettled(k, reply)
  \/ ErrorTimeout
  \/ ToggleLiveMode
  \/ \E c \in 1..created : OnOpen(c)
  \/ \E c \in 1..created, m \in ToolMessages : OnMessageApp(c, m)

SpecLiveEdit == InitApp /\ [][NextLiveEdit]_vars

\* A live session with voice edits during which Home may be pressed, seen
\* up to the point where the close() promises of the disconnect settle.
NextHome ==
  \/ \E img \in Images : Upload(img)
  \/ ToggleLiveMode
  \/ \E c \in 1..created : OnOpen(c)
  \/ \E c \in 1..created, m \in ToolMessages : OnMessageApp(c, m)
  \/ \E k \in 1..MaxPending, reply \in EditReplies : EditSettled(k, reply)
  \/ Home

SpecHome == InitApp /\ [][NextHome]_vars

\* editImage as a function of the key and the service's reply.
NextEditImage ==
  \/ EditImageCalled
  \/ EditImageWithKeyCalled

SpecEditImage == InitEditImage /\ [][NextEditImage]_vars

\* The PCM conversions as functions of the captured sample.
NextPcm ==
  \/ FloatTo16BitPCMCalled
  \/ Pcm16ToFloat32Called

SpecPcm == InitPcm /\ [][NextPcm]_vars

\* ---------------------------------------------------------------------- claims
Last(s) == s[Len(s)]

\* A client whose session is torn down: no live track, no capture callback,
\* both contexts closed or never allocated, no connection reference.
TornDown(c) ==
  /\ stream[c] # "live"
  /\ processor[c] # "installed"
  /\ inputAudioContext[c] # "running"
  /\ outputAudioContext[c] # "running"
  /\ sessionPromise[c] = Null

\* A client that still holds a device context, a microphone track or a
\* connection reference.
Active(c) ==
  \/ inputAudioContext[c] = "running"
  \/ outputAudioContext[c] = "running"
  \/ stream[c] = "live"
  \/ sessionPromise[c] # Null

DisconnectEntered(c) == Len(disconnectLog[c]) + Len(disconnectCalls[c]) > 0

\* C1: on a connected session, every inbound message that carried a batch of K
\* tool invocations and whose handling has ended was answered by a tool
\* response holding exactly K results, one per invocation id, whatever the
\* handlers did (a handler may throw).
C1_EveryBatchAnswered ==
  \A c \in 1..created :
    (toolLog[c] # <<>> /\ sessionPromise[c] = "resolved") =>
      LET e == toolLog[c][1]
      IN  /\ e.submitted
          /\ Len(e.responses) = Len(e.calls)
          /\ \A i \in 1..Len(e.calls) : e.responses[i].id = e.calls[i].id

\* C2: inbound messages are handled one at a time: a message is delivered to
\* onmessage only when no earlier invocation of onmessage is still suspended
\* (awaiting a tool handler).
C2_OneMessageAtATime ==
  [][\A c \in 1..created : received'[c] > received[c] => handlers[c] = <<>>]_vars

\* C3: no disconnect() call ever rejects; in particular a second call on the
\* same client completes normally.
C3_DisconnectNeverRejects ==
  \A c \in 1..created :
    \A i \in 1..Len(disconnectLog[c]) : disconnectLog[c][i] = "resolved"

\* C4: once disconnect() has been called, no microphone track is live and no
\* capture callback is installed, also when the transport opens or the
\* microphone is granted only after the call.
C4_NoCaptureAfterDisconnect ==
  \A c \in 1..created :
    DisconnectEntered(c) => stream[c] # "live" /\ processor[c] # "installed"

\* C5: at most one client constructed by the controller holds an open device
\* context, a live microphone track or a connection reference.
C5_AtMostOneActiveSession ==
  Cardinality({c \in 1..created : Active(c)}) <= 1

\* C6: when a client reports an error through onError, the controller clears
\* the live-mode state and forces the session closed: the client is torn down
\* or a disconnect() of it is under way.
C6_ErrorClosesSession ==
  [][\A c \in 1..created :
       (mounted /\ ~errorReported[c] /\ errorReported'[c]) =>
         /\ ~isLiveMode' /\ ~isConnecting' /\ liveCaption' = NoCaption
         /\ (TornDown(c)' \/ disconnectCalls'[c] # <<>>)]_vars

\* C7: the playback cursor never decreases, and every chunk handed to
\* playAudio is started at the later of the device clock and the cursor, after
\* which the cursor is that start time plus the chunk's duration.
C7_CursorMonotone ==
  [][\A c \in 1..created :
       /\ nextStartTime'[c] >= nextStartTime[c]
       /\ Len(scheduled'[c]) > Len(scheduled[c]) =>
            /\ Last(scheduled'[c]).start = Max(currentTime[c], nextStartTime[c])
            /\ nextStartTime'[c] =
                 Last(scheduled'[c]).start + Last(scheduled'[c]).duration]_vars

\* C7 witness: a first chunk started at the device clock (ahead of the
\* cursor), then a chunk that arrived while the clock was behind the cursor.
C7_Witness ==
  \E c \in 1..created :
    /\ Len(scheduled[c]) >= 2
    /\ scheduled[c][1].now > scheduled[c][1].cursor
    /\ scheduled[c][2].now < scheduled[c][2].cursor

\* C8: scheduled chunks never overlap, and a chunk that arrives while the
\* device clock is at or behind the cursor starts exactly where the previous
\* chunk ends.
C8_GaplessNoOverlap ==
  \A c \in 1..created :
    \A i \in 2..Len(scheduled[c]) :
      LET prev == scheduled[c][i - 1]
          this == scheduled[c][i]
      IN  /\ this.start >= prev.start + prev.duration
          /\ this.now <= this.cursor => this.start = prev.start + prev.duration

\* C8 witness: two chunks back to back, and a third after the clock had run
\* past the end of the second (a gap, no overlap).
C8_Witness ==
  \E c \in 1..created :
    /\ Len(scheduled[c]) >= 2
    /\ scheduled[c][2].now <= scheduled[c][2].cursor
    /\ scheduled[c][2].start = scheduled[c][1].start + scheduled[c][1].duration
    /\ scheduled[c][2].start > scheduled[c][2].now

\* C9: a tool handler that throws does not make the inbound-message handler
\* reject: no invocation of onmessage ends with a rejected promise.
C9_HandlerNeverRejects ==
  \A c \in 1..created :
    toolLog[c] # <<>> => toolLog[c][1].outcome # "rejected"

\* C10 as stated: each result carries the id and name of its invocation, in
\* the batch's order, and its value is the handler's return value, or
\* "success" if the handler returned nothing.
C10_ResultIsReturnValue ==
  \A c \in 1..created :
    (toolLog[c] # <<>> /\ toolLog[c][1].outcome = "resolved") =>
      LET e == toolLog[c][1]
      IN  /\ Len(e.responses) = Len(e.calls)
          /\ \A i \in 1..Len(e.calls) :
               /\ e.responses[i].id = e.calls[i].id
               /\ e.responses[i].name = e.calls[i].name
               /\ e.responses[i].response.result =
                    IF e.results[i] = Undefined THEN "success" ELSE e.results[i]

\* C10 amended: each result carries the id and name of its invocation, in the
\* batch's order; its value is the handler's return value when that is truthy
\* and "success" when the handler returned nothing or an empty string; and a
\* response that is submitted is the message handed to the session.
C10_ResultOrSuccess ==
  \A c \in 1..created :
    (toolLog[c] # <<>> /\ toolLog[c][1].outcome = "resolved") =>
      LET e == toolLog[c][1]
      IN  /\ Len(e.responses) = Len(e.calls)
          /\ \A i \in 1..Len(e.calls) :
               /\ e.responses[i].id = e.calls[i].id
               /\ e.responses[i].name = e.calls[i].name
               /\ e.responses[i].response.result =
                    IF e.results[i] \in {Undefined, ""} THEN "success" ELSE e.results[i]
          /\ e.submitted =>
               /\ sent[c] # <<>>
               /\ Last(sent[c]).kind = "toolResponse"
               /\ Last(sent[c]).data = e.responses

\* C10 witness: a submitted response to a batch of two whose handlers returned
\* an empty string and a non-empty string.
C10_Witness ==
  \E c \in 1..created :
    /\ toolLog[c] # <<>>
    /\ toolLog[c][1].submitted
    /\ Len(toolLog[c][1].calls) = 2
    /\ toolLog[c][1].results[1] = ""
    /\ toolLog[c][1].results[2] = "Image edited successfully"

\* Number of tool responses among the messages s handed to a session.
ToolResponsesIn(s) == Cardinality({i \in 1..Len(s) : s[i].kind = "toolResponse"})

\* C11: on a connected session, the handling of every inbound message that
\* carries a batch of tool invocations ends with exactly one tool response
\* being submitted, and a tool response is submitted only then, one at a time
\* and holding a result for every invocation of the batch.
C11_OneResponsePerBatch ==
  [][\A c \in 1..created :
       LET before == ToolResponsesIn(sent[c])
           after == ToolResponsesIn(sent'[c])
           ended == Len(handlers'[c]) < Len(handlers[c])
       IN  /\ (ended /\ sessionPromise[c] = "resolved") => after = before + 1
           /\ after > before =>
                /\ after = before + 1
                /\ ended
                /\ Len(Last(sent'[c]).data) = Len(toolLog'[c][1].calls)]_vars

\* C12: once disconnect() has dropped the connection reference, nothing more
\* is handed to the session, sends registered on the still pending session
\* promise before the disconnect included.
C12_NoSendAfterDisconnect ==
  [][\A c \in 1..created :
       (sessionPromise[c] = Null /\ transport[c] # "idle") => sent'[c] = sent[c]]_vars

\* C13: when a disconnect() call resolves, the tracks are stopped, the
\* processor is removed, the source is disconnected, both contexts are closed,
\* the connection reference is dropped and both transcript accumulators are
\* empty.
C13_TornDownWhenResolved ==
  [][\A c \in 1..created :
       (Len(disconnectLog'[c]) > Len(disconnectLog[c])
          /\ Last(disconnectLog'[c]) = "resolved") =>
         /\ stream'[c] \in {Null, "stopped"}
         /\ processor'[c] \in {Null, "removed"}
         /\ inputSource'[c] \in {Null, "disconnected"}
         /\ inputAudioContext'[c] \in {Null, "closed"}
         /\ outputAudioContext'[c] \in {Null, "closed"}
         /\ sessionPromise'[c] = Null
         /\ currentInputText'[c] = <<>>
         /\ currentOutputText'[c] = <<>>]_vars

\* Position of a teardown step in the order tracks, processor, source, input
\* context, output context, connection reference.
StepRank(step) ==
  CASE step = "tracks" -> 1
    [] step = "processor" -> 2
    [] step = "source" -> 3
    [] step = "inputContext" -> 4
    [] step = "outputContext" -> 5
    [] step = "reference" -> 6

InOrder(steps) ==
  \A i, j \in 1..Len(steps) : i < j => StepRank(steps[i]) < StepRank(steps[j])

\* C14: every disconnect() call, finished or suspended at an await, has taken
\* its teardown steps in the order tracks, processor, source, input context,
\* output context, and drops the connection reference only after all of them.
C14_TeardownOrder ==
  \A c \in 1..created :
    /\ InOrder(teardown[c])
    /\ \A k \in 1..Len(disconnectCalls[c]) :
         /\ InOrder(disconnectCalls[c][k].steps)
         /\ \A i \in 1..Len(disconnectCalls[c][k].steps) :
              disconnectCalls[c][k].steps[i] # "reference"

\* C14 witness: a finished disconnect() call that took all six steps.
C14_Witness ==
  \E c \in 1..created :
    teardown[c] = <<"tracks", "processor", "source", "inputContext", "outputContext",
                    "reference">>

\* C15: the delivery of a message appends each transcription fragment it
\* carries to the accumulator of its source and to no other, and reports the
\* text accumulated so far with that source and isFinal = false, once per
\* fragment; without a turn end the accumulators keep the appended text.
C15_AppendOnly ==
  [][\A c \in 1..created :
       received'[c] > received[c] =>
         LET m == lastTranscript'[c]
             calls == transcriptions'[c]
             inText == IF m.inputTranscription # Null
                         THEN currentInputText[c] \o <<m.inputTranscription>>
                         ELSE currentInputText[c]
             outText == IF m.outputTranscription # Null
                          THEN currentOutputText[c] \o <<m.outputTranscription>>
                          ELSE currentOutputText[c]
             partial == {i \in 1..Len(calls) : ~calls[i].isFinal}
             user == {i \in partial : calls[i].source = "user"}
             model == {i \in partial : calls[i].source = "model"}
         IN  /\ Cardinality(user) = IF m.inputTranscription # Null THEN 1 ELSE 0
             /\ Cardinality(model) = IF m.outputTranscription # Null THEN 1 ELSE 0
             /\ \A i \in user : calls[i].text = inText
             /\ \A i \in model : calls[i].text = outText
             /\ ~m.turnComplete =>
                  /\ currentInputText'[c] = inText
                  /\ currentOutputText'[c] = outText]_vars

\* C15 witness: two fragments of the model's speech in two messages of one
\* turn; the second call reports both.
C15_Witness ==
  \E c \in 1..created :
    /\ received[c] = 2
    /\ currentOutputText[c] = <<"Hello", "world">>
    /\ currentInputText[c] = <<>>
    /\ transcriptions[c] =
         <<[text |-> <<"Hello", "world">>, source |-> "model", isFinal |-> FALSE]>>

\* C16: the delivery of a message that ends the turn reports the accumulated
\* model text (this message's fragment included) exactly once with isFinal =
\* true, as its last call, and leaves both accumulators empty; a message that
\* does not end the turn makes no final call.
C16_FinalThenCleared ==
  [][\A c \in 1..created :
       received'[c] > received[c] =>
         LET m == lastTranscript'[c]
             calls == transcriptions'[c]
             outText == IF m.outputTranscription # Null
                          THEN currentOutputText[c] \o <<m.outputTranscription>>
                          ELSE currentOutputText[c]
             finals == {i \in 1..Len(calls) : calls[i].isFinal}
         IN  IF m.turnComplete
               THEN /\ finals = {Len(calls)}
                    /\ Last(calls) = [text |-> outText, source |-> "model", isFinal |-> TRUE]
                    /\ currentInputText'[c] = <<>>
                    /\ currentOutputText'[c] = <<>>
               ELSE finals = {}]_vars

\* C16 witness: a turn end after text of both sources was accumulated; the
\* final call carries the two model fragments and the accumulators are empty.
C16_Witness ==
  \E c \in 1..created :
    /\ lastTranscript[c].turnComplete
    /\ lastTranscript[c].inputTranscription # Null
    /\ Len(transcriptions[c]) = 3
    /\ Last(transcriptions[c]).isFinal
    /\ Len(Last(transcriptions[c]).text) = 2
    /\ currentInputText[c] = <<>>
    /\ currentOutputText[c] = <<>>
    /\ sessionPromise[c] = "resolved"

\* A client on which connect() has had no effect.
Untouched(c) ==
  /\ transport[c] = "idle"
  /\ sessionPromise[c] = Null
  /\ inputAudioContext[c] = Null
  /\ outputAudioContext[c] = Null
  /\ stream[c] = Null
  /\ micRequest[c] = "none"
  /\ sent[c] = <<>>
  /\ onOpenCalls[c] = 0

\* C17: without a credential, connect() rejects and leaves its client as
\* constructed (no context, no connection, no microphone request); the
\* controller then is neither connecting nor in live mode, keeps its client
\* reference as it was, and its newest log entry is an error.
C17_MissingKeyNoSideEffects ==
  [][/\ \A c \in 1..created' : connectResult'[c] = "rejected" => Untouched(c)'
     /\ (created' > created /\ ~envApiKey) =>
          /\ connectResult'[created'] = "rejected"
          /\ ~isConnecting'
          /\ ~isLiveMode'
          /\ liveClientRef' = liveClientRef
          /\ logs' = [message |-> <<"Failed to start Live Session">>, type |-> "error"]]_vars

\* C17 witness: the controller has tried twice to start a session without a
\* credential.
C17_Witness ==
  /\ created = 2
  /\ connectResult[1] = "rejected"
  /\ connectResult[2] = "rejected"
  /\ logs.type = "error"
  /\ ~isConnecting

\* C18: a connect() call whose transport fails before it ever opens ends
\* rejected.
C18_ConnectRejectsOnFailure ==
  \A c \in 1..created :
    (transport[c] \in {"errored", "closed"} /\ onOpenCalls[c] = 0) =>
      connectResult[c] = "rejected"

AudioSent(c) ==
  \E i \in 1..Len(sent[c]) : sent[c][i].mimeType = "audio/pcm;rate=16000"

\* C19: onError is called with "Connection error" exactly when the transport
\* reported an error and with "Microphone access denied" exactly when
\* startAudioInput failed; after a microphone failure no processor or source
\* exists, no audio block was captured or sent, and the open handler had
\* completed (onOpen was invoked).
C19_ErrorReasons ==
  \A c \in 1..created :
    /\ errorReasons[c] \subseteq {"Connection error", "Microphone access denied"}
    /\ transport[c] = "errored" => "Connection error" \in errorReasons[c]
    /\ "Connection error" \in errorReasons[c] => transport[c] \in {"errored", "closed"}
    /\ micRequest[c] = "failed" <=> "Microphone access denied" \in errorReasons[c]
    /\ micRequest[c] = "failed" =>
         /\ processor[c] = Null
         /\ inputSource[c] = Null
         /\ framesCaptured[c] = 0
         /\ ~AudioSent(c)
         /\ onOpenCalls[c] = 1

\* C19 witness: one client has reported both a denied microphone and a
\* transport error.
C19_Witness ==
  \E c \in 1..created :
    /\ micRequest[c] = "failed"
    /\ errorReasons[c] = {"Connection error", "Microphone access denied"}

\* C20: onOpen is invoked exactly when the transport opens, once, and in that
\* step the microphone has been requested; no microphone request, stream,
\* processor, captured block or audio send exists on a client whose transport
\* has not opened.
C20_CaptureOnlyOnOpen ==
  [][\A c \in 1..created :
       /\ onOpenCalls'[c] =
            IF transport[c] # "open" /\ transport'[c] = "open"
              THEN onOpenCalls[c] + 1 ELSE onOpenCalls[c]
       /\ onOpenCalls'[c] <= 1
       /\ onOpenCalls'[c] = 1 => micRequest'[c] # "none"
       /\ onOpenCalls'[c] = 0 =>
            /\ micRequest'[c] = "none"
            /\ stream'[c] = Null
            /\ processor'[c] = Null
            /\ framesCaptured'[c] = 0
            /\ ~AudioSent(c)']_vars

\* C20 witness: after the transport opened and onOpen ran once, the
\* microphone was granted and a captured block was sent.
C20_Witness ==
  \E c \in 1..created :
    /\ onOpenCalls[c] = 1
    /\ micRequest[c] = "done"
    /\ framesCaptured[c] > 0
    /\ AudioSent(c)

IsAudio(msg) == msg.mimeType = "audio/pcm;rate=16000"

\* The capture numbers of the audio chunks among the messages s, in order.
AudioOf(s) == [i \in 1..Len(SelectSeq(s, IsAudio)) |-> SelectSeq(s, IsAudio)[i].data]

\* C21: every onaudioprocess event adds exactly one realtime-input chunk
\* tagged "audio/pcm;rate=16000" behind everything submitted or queued
\* before it, and the audio chunks submitted or queued are the captured
\* blocks 1..n in capture order.
C21_AudioFifo ==
  [][\A c \in 1..created :
       /\ framesCaptured'[c] > framesCaptured[c] =>
            sent'[c] \o thenQueue'[c] =
              Append(sent[c] \o thenQueue[c],
                     [kind |-> "realtimeInput", mimeType |-> "audio/pcm;rate=16000",
                      data |-> framesCaptured[c] + 1])
       /\ AudioOf(sent'[c] \o thenQueue'[c]) = [i \in 1..framesCaptured'[c] |-> i]]_vars

\* C21 witness: two captured blocks submitted behind an image frame.
C21_Witness ==
  \E c \in 1..created :
    /\ framesCaptured[c] = 2
    /\ Len(sent[c]) = 3
    /\ sent[c][1].mimeType = "image/jpeg"
    /\ AudioOf(sent[c]) = <<1, 2>>

\* The base64 data of an image: what follows the data URL's header, or the
\* whole string when there is no header.
Payload(img) == <<img[Len(img)]>>

C23_OnlyHandlerMutates ==
  [][\A c \in 1..created :
       (\/ nextStartTime'[c] # nextStartTime[c]
        \/ currentInputText'[c] # currentInputText[c]
        \/ currentOutputText'[c] # currentOutputText[c]) =>
         received'[c] > received[c]]_vars

\* C23 amended: the playback cursor changes only in a step that handles an
\* inbound message; the transcript accumulators change only in such a step
\* or when a disconnect() call resolves, which leaves both empty.
C23_HandlerOrDisconnect ==
  [][\A c \in 1..created :
       /\ nextStartTime'[c] # nextStartTime[c] => received'[c] > received[c]
       /\ (\/ currentInputText'[c] # currentInputText[c]
           \/ currentOutputText'[c] # currentOutputText[c]) =>
            \/ received'[c] > received[c]
            \/ /\ Len(disconnectLog'[c]) > Len(disconnectLog[c])
               /\ Last(disconnectLog'[c]) = "resolved"
               /\ currentInputText'[c] = <<>>
               /\ currentOutputText'[c] = <<>>]_vars

\* C23 witness: a capturing client that sent an image frame, played a chunk
\* and had accumulated model text when disconnect() resolved and emptied the
\* accumulator, the cursor staying where it was.
C23_Witness ==
  \E c \in 1..created :
    /\ disconnectLog[c] # <<>>
    /\ Last(disconnectLog[c]) = "resolved"
    /\ transcriptions[c] # <<>>
    /\ Last(transcriptions[c]).text # <<>>
    /\ ~Last(transcriptions[c]).isFinal
    /\ currentInputText[c] = <<>>
    /\ currentOutputText[c] = <<>>
    /\ nextStartTime[c] > 0
    /\ framesCaptured[c] > 0
    /\ frameCalls[c] > 0

\* A step in which an edit request succeeds / fails: a pending editImage
\* call settles, or (failure only) a command is submitted without a key.
EditSucceeds ==
  \E k \in 1..Len(edits), reply \in EditReplies :
    EditSettled(k, reply) /\ EditImage(envApiKey, reply).ok
EditFails ==
  \/ \E k \in 1..Len(edits), reply \in EditReplies :
       EditSettled(k, reply) /\ ~EditImage(envApiKey, reply).ok
  \/ CommandSubmit /\ ~envApiKey

\* C24: uploading an image A makes the history [A] with index 0; a successful
\* edit returning B on the history [A] makes it [A, B] with index 1 and
\* current image B; undo on [A, B] at index 1 shows A at index 0 and keeps
\* the history; redo then shows B at index 1.
C24_HistoryScenario ==
  [][/\ \A img \in Images :
          ImageSelected(img) =>
            history' = <<img>> /\ historyIndex' = 0 /\ currentImage' = img
     /\ (EditSucceeds /\ Len(history) = 1 /\ historyIndex = 0) =>
          /\ history' = <<history[1], lastEdit'.url>>
          /\ historyIndex' = 1
          /\ currentImage' = lastEdit'.url
          /\ lastEdit'.url[1] = "data:image/png;base64"
     /\ (Undo /\ Len(history) = 2 /\ historyIndex = 1) =>
          currentImage' = history[1] /\ historyIndex' = 0 /\ history' = history
     /\ (Redo /\ Len(history) = 2 /\ historyIndex = 0) =>
          currentImage' = history[2] /\ historyIndex' = 1 /\ history' = history]_vars

\* C24 witness: the scenario's end, an uploaded image and its edit in the
\* history, the edit shown again by a redo.
C24_Witness ==
  /\ Len(history) = 2
  /\ history[1] \in Images
  /\ history[2] = lastEdit.url
  /\ lastEdit.result = "Image edited successfully"
  /\ historyIndex = 1
  /\ currentImage = history[2]
  /\ logs.message = <<"redone">>

\* C25 as stated: when an edit issued at an index that was not the last one
\* succeeds, the history becomes the items up to and including that index
\* followed by the new item, and the history index points at the new item.
C25_TruncatesRedoBranch ==
  [][\A k \in 1..Len(edits), reply \in EditReplies :
       (/\ EditSettled(k, reply)
        /\ EditImage(envApiKey, reply).ok
        /\ edits[k].index < Len(edits[k].issuedOn) - 1) =>
         /\ history' = Append(SubSeq(edits[k].issuedOn, 1, edits[k].index + 1),
                              lastEdit'.url)
         /\ historyIndex' = Len(history') - 1]_vars

\* C26: when an edit request fails the newest log entry is an error, the
\* current image, the history and its index stay as they were, appState
\* becomes ERROR with a timer pending that puts it back to IDLE, and
\* handleExternalEdit returns "Failed to edit image" to its caller; for an
\* edit started by a tool call that string is the call's result in the tool
\* response.
C26_FailedEdit ==
  /\ [](appState = "ERROR" => errorTimers > 0)
  /\ [][/\ EditFails =>
             /\ logs'.type = "error"
             /\ logs'.message # <<>>
             /\ currentImage' = currentImage
             /\ history' = history
             /\ historyIndex' = historyIndex
             /\ appState' = "ERROR"
             /\ errorTimers' = errorTimers + 1
             /\ lastEdit'.result = "Failed to edit image"
        /\ \A k \in 1..Len(edits), reply \in EditReplies :
             (/\ EditSettled(k, reply)
              /\ ~EditImage(envApiKey, reply).ok
              /\ edits[k].via = "tool") =>
               LET log == toolLog'[edits[k].client]
               IN  /\ log # <<>>
                   /\ log[1].outcome = "resolved"
                   /\ \E i \in 1..Len(log[1].calls) :
                        /\ log[1].calls[i].name = "edit_image"
                        /\ log[1].results[i] = "Failed to edit image"
                        /\ log[1].responses[i].response.result = "Failed to edit image"
        /\ ErrorTimeout => appState' = "IDLE"]_vars

\* C26 witness: after a voice edit had succeeded, a second one failed; its
\* tool response with the failure string was sent on the session, and the
\* timer has put the state back to IDLE.
C26_Witness ==
  /\ lastEdit.result = "Failed to edit image"
  /\ lastEdit.via = "tool"
  /\ logs.type = "error"
  /\ appState = "IDLE"
  /\ errorTimers = 0
  /\ Len(history) = 2
  /\ currentImage = history[2]
  /\ \E c \in 1..created :
       /\ toolLog[c] # <<>>
       /\ toolLog[c][1].submitted
       /\ sent[c] # <<>>
       /\ Last(sent[c]).kind = "toolResponse"
       /\ \E i \in 1..Len(Last(sent[c]).data) :
            Last(sent[c]).data[i].response.result = "Failed to edit image"

\* The cases in which editImage has to fail, read off the key and the reply.
NoImagePart(parts) == \A i \in 1..Len(parts) : parts[i].inlineData = <<>>
MustFail(hasKey, reply) ==
  \/ ~hasKey
  \/ reply.candidates = <<>>
  \/ LET candidate == reply.candidates[1]
         none == ~candidate.hasContent \/ ~candidate.hasParts \/ candidate.parts = <<>>
     IN  \/ candidate.finishReason \notin {Null, "STOP"} /\ none
         \/ none
         \/ NoImagePart(candidate.parts)
IsFailure(r) == ~r.ok /\ r.error # "" /\ r.value = NoImage

FirstImageData(parts) ==
  parts[CHOOSE i \in 1..Len(parts) :
          /\ parts[i].inlineData # <<>>
          /\ \A j \in 1..(i - 1) : parts[j].inlineData = <<>>].inlineData[1]

\* C28: with a key and a reply whose candidate has a part carrying image
\* data, editImage (either variant) resolves, whatever the finish reason,
\* with "data:image/png;base64," followed by the data of the first such
\* part; and it resolves with nothing else.
C28_EditImageReturns ==
  LET reply == editCall.reply
      good == /\ ~reply.rejected
              /\ reply.candidates # <<>>
              /\ reply.candidates[1].hasContent
              /\ reply.candidates[1].hasParts
              /\ ~NoImagePart(reply.candidates[1].parts)
      url == <<"data:image/png;base64", FirstImageData(reply.candidates[1].parts)>>
  IN  /\ editCall.returned # <<>> =>
           /\ (editCall.envKey /\ good) =>
                editCall.returned[1].ok /\ editCall.returned[1].value = url
           /\ editCall.returned[1].ok => editCall.envKey /\ good
      /\ editCall.returnedWithKey # <<>> =>
           /\ ((editCall.apiKey \/ editCall.envKey) /\ good) =>
                editCall.returnedWithKey[1].ok /\ editCall.returnedWithKey[1].value = url
           /\ editCall.returnedWithKey[1].ok => (editCall.apiKey \/ editCall.envKey) /\ good

\* C28 witness: the candidate was stopped for safety but carried a text part
\* and then an image part; both variants returned that image's data URL.
C28_Witness ==
  /\ editCall.returned # <<>>
  /\ editCall.returnedWithKey # <<>>
  /\ editCall.reply.candidates # <<>>
  /\ editCall.reply.candidates[1].finishReason = "SAFETY"
  /\ editCall.reply.candidates[1].parts = <<TextPart, ImagePart("DDDD")>>
  /\ editCall.returned[1].ok
  /\ editCall.returned[1].value = <<"data:image/png;base64", "DDDD">>
  /\ editCall.returnedWithKey[1].value = <<"data:image/png;base64", "DDDD">>

\* round(x * k) for the clamped sample x = s / SampleUnit and the scale k of
\* its sign, as Math.round rounds (halves toward +infinity).
RoundedPcm(n) ==
  LET s == Clamped(n)
  IN  IF s < 0
        THEN -Whole(-s, NegativeScale)
               - (IF 2 * Rest(-s, NegativeScale) > SampleUnit THEN 1 ELSE 0)
        ELSE Whole(s, PositiveScale)
               + (IF 2 * Rest(s, PositiveScale) >= SampleUnit THEN 1 ELSE 0)

\* C29 as stated: the 16-bit value of a captured sample x is
\* round(clamp(x) * 32767) for x >= 0 and round(clamp(x) * 32768) for x < 0,
\* and lies in [-32768, 32767].
C29_RoundedAndClamped ==
  pcmCall.pcm # <<>> =>
    /\ pcmCall.pcm[1] = RoundedPcm(pcmCall.sample)
    /\ pcmCall.pcm[1] \in (-NegativeScale)..PositiveScale

\* The round-trip error x - y of the sample x = n / SampleUnit and the float
\* y = v / PcmDivisor, in quantization steps of 1 / PcmDivisor: the integer
\* `whole` plus the fraction `part` / SampleUnit (0 <= part < SampleUnit).
ErrorSteps(n, v) ==
  [whole |-> (n \div SampleUnit) * PcmDivisor
               + ((n % SampleUnit) * PcmDivisor) \div SampleUnit - v,
   part |-> ((n % SampleUnit) * PcmDivisor) % SampleUnit]
RoundTripError == ErrorSteps(pcmCall.sample, pcmCall.float[1].num)
RoundTripped ==
  /\ pcmCall.float # <<>>
  /\ pcmCall.float[1].den = PcmDivisor
  /\ pcmCall.sample \in (-SampleUnit)..SampleUnit

\* C30 as stated: for a sample in [-1, 1], floatTo16BitPCM followed by
\* pcm16ToFloat32 gives a value at most 1/32768 away from the sample.
C30_WithinOneStep ==
  RoundTripped =>
    /\ RoundTripError.whole >= -1
    /\ RoundTripError.whole < 1 \/ (RoundTripError.whole = 1 /\ RoundTripError.part = 0)

\* C30 amended: for a sample in [-1, 1] the round trip gives a value less
\* than 2/32768 away from the sample, never farther from zero than the
\* sample; for a sample that is not positive the distance is below 1/32768.
C30_WithinTwoSteps ==
  RoundTripped =>
    IF pcmCall.sample > 0
      THEN RoundTripError.whole \in {0, 1}
      ELSE \/ RoundTripError.whole = 0 /\ RoundTripError.part = 0
           \/ RoundTripError.whole = -1 /\ RoundTripError.part > 0

\* C30 witness: a sample between 1/2 and 1 that came back more than one
\* step, and less than two steps, below itself.
C30_Witness ==
  /\ RoundTripped
  /\ pcmCall.sample > SampleUnit \div 2
  /\ pcmCall.sample < SampleUnit
  /\ RoundTripError.whole = 1
  /\ RoundTripError.part > 0

\* C31 as stated: whenever the history is not empty the history index lies
\* within it and the current image is the item the index points at.
C31_IndexAndImage ==
  history # <<>> =>
    /\ historyIndex \in 0..(Len(history) - 1)
    /\ currentImage = history[historyIndex + 1]

\* C32 as stated: an edit started by a live edit_image tool call takes as
\* its input the image that is current when the call arrives, so a second
\* edit of the same session works on the output of the first one.
C32_EditsCurrentImage ==
  [][\A c \in 1..created, m \in ToolMessages :
       (OnMessageApp(c, m) /\ Len(edits') > Len(edits)) =>
         /\ Last(edits').via = "tool"
         /\ Last(edits').img = currentImage]_vars

\* A disconnect() call of client c has resolved after connect(): the
\* connection reference it dropped has not been set again.
DisconnectResolved(c) ==
  /\ \E i \in 1..Len(disconnectLog[c]) : disconnectLog[c][i] = "resolved"
  /\ transport[c] # "idle"
  /\ sessionPromise[c] = Null

\* C33 as stated: an inbound message delivered after disconnect() has
\* resolved has no effect: no onTranscription and no onToolCall callback is
\* invoked, no audio is scheduled and both transcript accumulators stay
\* empty.
C33_LateMessageIgnored ==
  [][\A c \in 1..created :
       (received'[c] > received[c] /\ DisconnectResolved(c)) =>
         /\ transcriptions'[c] = <<>>
         /\ handlers'[c] = handlers[c]
         /\ scheduled'[c] = scheduled[c]
         /\ currentInputText'[c] = <<>>
         /\ currentOutputText'[c] = <<>>]_vars

\* C34 as stated, in the form a finite run refutes: when the remote side
\* closes the connection of client c, the release of its local resources is
\* done or under way (the client is torn down or a disconnect() of it is
\* pending) and the controller no longer refers to c as its session.
C34_ReleasedOnClose ==
  [][\A c \in 1..created :
       (transport[c] # "closed" /\ transport'[c] = "closed") =>
         /\ liveClientRef' # c
         /\ (TornDown(c)' \/ disconnectCalls'[c] # <<>>)]_vars

\* C35 as stated: whenever the controller is connecting, it eventually is
\* not: every attempt to start live mode ends the connecting state, also
\* when the transport neither opens nor reports an error.
C35_ConnectingEnds == isConnecting ~> ~isConnecting

\* Position of a part in the order audio, user fragment, agent fragment,
\* turn-complete, tool-call batch.
PartRank(part) ==
  CASE part = "audio" -> 1
    [] part = "inputTranscription" -> 2
    [] part = "outputTranscription" -> 3
    [] part = "turnComplete" -> 4
    [] part = "toolCall" -> 5

\* C36: the handling of one inbound message acts on each part the message
\* carries once, in the order audio, user fragment, agent fragment,
\* turn-complete, tool-call batch; the transcription callbacks follow that
\* order, and the final text of a message that carries an agent fragment
\* together with the turn-complete signal ends with that fragment.
C36_PartsInOrder ==
  [][\A c \in 1..created :
       received'[c] > received[c] =>
         LET m == lastTranscript'[c]
             done == m.handled
             calls == transcriptions'[c]
         IN  /\ \A i, j \in 1..Len(done) : i < j => PartRank(done[i]) < PartRank(done[j])
             /\ m.audio <=> \E i \in 1..Len(done) : done[i] = "audio"
             /\ m.inputTranscription # Null <=>
                  \E i \in 1..Len(done) : done[i] = "inputTranscription"
             /\ m.outputTranscription # Null <=>
                  \E i \in 1..Len(done) : done[i] = "outputTranscription"
             /\ m.turnComplete <=> \E i \in 1..Len(done) : done[i] = "turnComplete"
             /\ m.toolCall <=> \E i \in 1..Len(done) : done[i] = "toolCall"
             /\ \A i, j \in 1..Len(calls) :
                  (i < j /\ calls[i].source = "model") => calls[j].source = "model"
             /\ \A i, j \in 1..Len(calls) : (i < j /\ calls[i].isFinal) => calls[j].isFinal
             /\ (m.turnComplete /\ m.outputTranscription # Null) =>
                  /\ Last(calls).isFinal
                  /\ Last(Last(calls).text) = m.outputTranscription
                  /\ Len(Last(calls).text) = Len(currentOutputText[c]) + 1
             /\ (m.toolCall /\ m.turnComplete) =>
                  /\ Len(handlers'[c]) = Len(handlers[c]) + 1
                  /\ currentOutputText'[c] = <<>>]_vars

\* C36 witness: a message with all five parts was delivered after an
\* earlier agent fragment; its audio was scheduled, three transcription
\* calls were made, the last one final with both fragments, and its tool
\* call is awaited.
C36_Witness ==
  \E c \in 1..created :
    /\ lastTranscript[c].handled =
         <<"audio", "inputTranscription", "outputTranscription", "turnComplete", "toolCall">>
    /\ received[c] = 2
    /\ scheduled[c] # <<>>
    /\ Len(transcriptions[c]) = 3
    /\ Last(transcriptions[c]).isFinal
    /\ Len(Last(transcriptions[c]).text) = 2
    /\ handlers[c] # <<>>
    /\ currentOutputText[c] = <<>>

\* The pending edit requests that were issued from the command form.
TextEditsInFlight == {k \in 1..Len(edits) : edits[k].via = "command"}

\* C37 as stated: at most one text-issued edit request is in flight;
\* handleCommandSubmit issues none without a current image, with a blank
\* prompt or while appState is ANALYZING; and it leaves the prompt as it is
\* when it issues the request and clears it when that request has completed.
C37_OneTextEditInFlight ==
  /\ [](Cardinality(TextEditsInFlight) <= 1)
  /\ [][/\ Len(edits') > Len(edits) =>
             /\ currentImage # NoImage
             /\ ~Blank(prompt)
             /\ appState # "ANALYZING"
             /\ prompt' = prompt
        /\ \A k \in 1..Len(edits), reply \in EditReplies :
             (EditSettled(k, reply) /\ edits[k].via = "command") => prompt' = ""]_vars

\* C38 as stated: when the controller has no current image an edit_image
\* call starts no edit request and is answered "No image to edit"; a call
\* of any other tool starts no edit, its handler returns nothing and the
\* session manager reports "success" for its id.  (The calls answered in a
\* step are in the tool log when the batch's response was sent in it, else
\* in the record of the invocation that now awaits an edit.)
C38_NoImageOrOtherTool ==
  [][\A c \in 1..created, m \in ToolMessages :
       OnMessageApp(c, m) =>
         LET suspended == Len(edits') > Len(edits)
             a == IF suspended THEN Last(handlers'[c]) ELSE toolLog'[c][1]
         IN  /\ currentImage = NoImage =>
                  /\ ~suspended
                  /\ \A i \in 1..Len(a.calls) :
                       a.calls[i].name = "edit_image" =>
                         /\ a.results[i] = "No image to edit"
                         /\ a.responses[i].response.result = "No image to edit"
             /\ \A i \in 1..Len(a.responses) :
                  a.calls[i].name # "edit_image" =>
                    /\ a.results[i] = Undefined
                    /\ a.responses[i] = [id |-> a.calls[i].id, name |-> a.calls[i].name,
                                         response |-> [result |-> "success"]]
             /\ suspended => a.calls[Len(a.responses) + 1].name = "edit_image"]_vars

\* C39: handleUndo does nothing at history index 0 or below (the empty
\* history included) and handleRedo does nothing at the last index or
\* beyond: no step of theirs exists there, so the history, the index, the
\* current image and the log stay as they are; everywhere else an undo
\* lowers and a redo raises the index by exactly one, and neither changes
\* the history.
C39_UndoRedo ==
  /\ [](historyIndex <= 0 => ~ENABLED Undo)
  /\ [](historyIndex >= Len(history) - 1 => ~ENABLED Redo)
  /\ [][/\ Undo => historyIndex' = historyIndex - 1 /\ history' = history
        /\ Redo => historyIndex' = historyIndex + 1 /\ history' = history]_vars

\* C39 witness: an undo has moved the index from 1 to 0 on a history of
\* three items, where a further undo does nothing and a redo is possible.
C39_Witness ==
  /\ logs.message = <<"undone">>
  /\ Len(history) = 3
  /\ historyIndex = 0
  /\ currentImage = history[1]
  /\ ~ENABLED Undo
  /\ ENABLED Redo

\* C40 as stated: Home leaves the controller without a current image, with
\* an empty history, index -1, an empty prompt and appState IDLE; when live
\* mode was on, the disconnect of the live client is done or under way, the
\* reference being cleared with it; and an edit request that completes
\* while the controller is in that reset state leaves the current image and
\* the history as Home left them.
C40_HomeResets ==
  [][/\ Home =>
          /\ currentImage' = NoImage
          /\ history' = <<>>
          /\ historyIndex' = -1
          /\ prompt' = ""
          /\ appState' = "IDLE"
          /\ (isLiveMode /\ liveClientRef # NoClient) =>
               \/ liveClientRef' = NoClient /\ TornDown(liveClientRef)'
               \/ disconnectCalls'[liveClientRef] # <<>>
     /\ \A k \in 1..Len(edits), reply \in EditReplies :
          (EditSettled(k, reply) /\ currentImage = NoImage /\ history = <<>>) =>
            /\ currentImage' = NoImage
            /\ history' = <<>>
            /\ historyIndex' = -1]_vars

====
